---- MODULE Spec2Model ----
(***************************************************************************)
(* Model of the skill evaluation harness, src/test/run-evaluations.sh      *)
(* (parallel edition, lines 417-1460): the per-evaluation task             *)
(* run_evaluation, the watchdog of run_with_timeout, the scheduler and the *)
(* reporter in main, and the diagnostic extraction extract_error_summary.  *)
(*                                                                         *)
(* Text is modelled as sequences of tokens: a path is the sequence of the  *)
(* pieces the script concatenates, a build-output line is a sequence of    *)
(* words, a result file is the sequence of its '|'-separated fields.       *)
(***************************************************************************)
EXTENDS Integers, Sequences, FiniteSets, TLC

\* ---------------------------------------------------------------- bounds
\* evaluations in the manifest
NumEvals == 2
\* leading evaluations of the manifest the filter of a --compare run selects among
MaxCompareEvals == 1
\* lines of a build output
MaxLines == 4

\* the most arguments of a command line
MaxArgs == 2

\* the most runs of the pattern checks against one workspace
MaxVerifyRuns == 2

\* the most runs of the installer in one directory
MaxInstallerRuns == 3

\* ------------------------------------------------- configuration defaults
MAX_RETRIES == 3

WORK_BASE == <<"/tmp/viaduct-skill-eval">>
OUTPUT_DIR == <<".eval-outputs", "/">>

\* ------------------------------------------------------------- manifest
\* evaluations.json: ids are text; an id is the sequence of its pieces, so
\* that an id may itself end in a piece the script uses as a suffix.
IdPool == << <<"e1">>, <<"e1", "-noskill">>, <<"e2">>, <<"e1", "-crush">>, <<"e3">> >>

Evals == 1..NumEvals

EvalId(i) == IdPool[i]

\* .[i].verify_patterns
VerifyPatterns(i) == IF i = 1 THEN <<"r1", "r2">> ELSE IF i = 2 THEN <<"r1">> ELSE <<>>

\* .[i].negative_patterns
NegativePatterns(i) == IF i = 1 THEN <<>> ELSE <<"n1">>

\* every pattern a workspace's sources can match
AllPatterns == {"r1", "r2", "n1"}

VARIABLES
    COMPARE,        \* 1 when --compare was given
    USE_SKILL,      \* 1 or 0
    BACKEND,        \* "crush" or "claude"
    MAX_PARALLEL,   \* effective parallelism
    evals_to_run,   \* manifest indices that pass the filter, in manifest order
    pc,             \* position of main
    idx,            \* position of main's start loop in evals_to_run
    running_pids,   \* main's list of started tasks it believes alive
    completed,      \* main's completed counter
    task,           \* per evaluation: the state of its run_evaluation process
    results,        \* result files: path -> fields
    dirs,           \* existing workspace directories (paths)
    report,         \* the reporter's counters and lists
    exit_code,      \* the process's exit code, -1 while it runs
    skill_exit,     \* run_compare: main's return code of the with-skill pass, -1 before
    reports,        \* the reports of the passes of main that have returned, in order
    build_out,      \* extract_error_summary: the build output, a sequence of lines
    summary,        \* extract_error_summary: the line it printed
    env,            \* what the harness finds around it: template, credential, agent CLI
    CLEAN,          \* 1 when --clean was given
    comparison,     \* run_compare: the comparison report
    args,           \* "$@" as the script was called
    argi,           \* which of args is $1 now (one more for each shift)
    environ,        \* BACKEND and MAX_PARALLEL of the caller's environment, <<>> if unset
    EXPLICIT_PARALLEL,  \* <<>> for the empty string, else <<n>>
    FILTER,         \* <<>> for the empty string, else the last other argument
    other,          \* a second invocation of the script on the same machine
    verifier,       \* the pattern checks of run_evaluation run on their own
    runner,         \* EvaluationRunner.runEvaluation: its locals and its position
    watchdog,       \* one run_with_timeout followed signal by signal
    ts,             \* src/viaduct/run-evaluations.ts: main and runEvaluation
    viaduct,        \* src/viaduct/run-evaluations.sh: main under set -e
    installer,      \* bin/install.js: the files of the directory it runs in
    sequential      \* the sequential run-evaluations.sh: results file and display

vars == <<COMPARE, USE_SKILL, BACKEND, MAX_PARALLEL, evals_to_run, pc, idx, running_pids,
          completed, task, results, dirs, report, exit_code, skill_exit, reports,
          build_out, summary, env, CLEAN, comparison, args, argi, environ,
          EXPLICIT_PARALLEL, FILTER, other, verifier, runner, watchdog, ts, viaduct,
          installer, sequential>>

cliVars == <<args, argi, environ, EXPLICIT_PARALLEL, FILTER>>

cfgVars == <<COMPARE, USE_SKILL, BACKEND, MAX_PARALLEL, evals_to_run, env, CLEAN, cliVars,
            other>>
mainVars == <<pc, idx, running_pids, completed, report, exit_code, skill_exit, reports,
             comparison>>
\* the harnesses and the installer that stand beside test/run-evaluations.sh
harnessVars == <<ts, viaduct, installer, sequential>>
extractVars == <<build_out, summary, verifier, runner, watchdog, harnessVars>>

\* no run_with_timeout followed signal by signal
NoWatchdog ==
    [eval |-> 0, pc |-> "off", wrapper |-> "off", live |-> {}, pending |-> <<>>,
     signals |-> <<>>, seen |-> {}, early |-> FALSE, graced |-> FALSE,
     alive_after_grace |-> FALSE]

\* run-evaluations.ts not started
NoTs ==
    [pc |-> "off", evalFilter |-> <<>>, toRun |-> <<>>, workDir |-> <<>>, seen |-> <<>>,
     threw |-> <<>>, results |-> <<>>, exit |-> -1]

\* viaduct/run-evaluations.sh not started
NoViaduct ==
    [pc |-> "off", errexit_arith |-> FALSE, filter |-> <<>>, i |-> 0, passed |-> 0,
     failed |-> 0, skipped |-> 0, visited |-> <<>>, summary |-> FALSE, exit |-> -1]

\* the installer not started
NoInstaller == [pc |-> "off", files |-> <<>>, first |-> <<>>, last |-> <<>>, runs |-> 0]

\* the sequential harness not started
NoSequential ==
    [pc |-> "off", i |-> 0, attempt |-> 0, build_success |-> 0, retry_errors |-> <<>>,
     last_result |-> <<"">>, returned |-> 0, results_file |-> <<>>, failed_builds |-> <<>>,
     failed |-> 0, shown |-> <<>>, exit |-> -1]

\* none of them runs
NoHarness ==
    /\ ts = NoTs
    /\ viaduct = NoViaduct
    /\ installer = NoInstaller
    /\ sequential = NoSequential

\* Kotlin's null
null == <<>>

\* no call of EvaluationRunner.runEvaluation
NoRunner ==
    [pc |-> "off", eval |-> 0, setupQuery |-> FALSE, buildSuccess |-> FALSE,
     claudeOutput |-> "", buildOutput |-> "", patternsFound |-> <<>>,
     patternsMissing |-> <<>>, error |-> null, raised |-> "", result |-> <<>>]

\* no pattern checks run on their own
NoVerifier == [eval |-> 0, files |-> <<>>, runs |-> <<>>]

\* ---------------------------------------------------------------- paths
\* run_evaluation, lines 854-862, and main, lines 1084-1085
suffix == IF USE_SKILL = 0 THEN <<"-noskill">> ELSE <<>>

backend_suffix == IF BACKEND = "crush" THEN <<"-crush">> ELSE <<>>

work_dir_shared(i) == WORK_BASE \o suffix \o backend_suffix

work_dir(i) == WORK_BASE \o <<"-">> \o EvalId(i) \o suffix \o backend_suffix

agent_output(i) == OUTPUT_DIR \o EvalId(i) \o suffix \o backend_suffix \o <<"-agent.txt">>

build_output(i) == OUTPUT_DIR \o EvalId(i) \o suffix \o backend_suffix \o <<"-build.txt">>

errors_file_in_src(i) == work_dir(i) \o <<"/src", "/errors.txt">>

errors_file(i) == OUTPUT_DIR \o EvalId(i) \o suffix \o backend_suffix \o <<"-errors.txt">>

result_file(i) == OUTPUT_DIR \o EvalId(i) \o suffix \o backend_suffix \o <<".result">>

tokens_file(i) == OUTPUT_DIR \o EvalId(i) \o suffix \o backend_suffix \o <<".tokens">>

workspace_dir(i) == OUTPUT_DIR \o EvalId(i) \o suffix \o <<"-workspace">>

\* s ends with t
EndsWith(s, t) ==
    /\ Len(s) >= Len(t)
    /\ SubSeq(s, Len(s) - Len(t) + 1, Len(s)) = t

\* the files rm -f "$OUTPUT_DIR"/*$suffix$backend_suffix.result removes
ClearGlob(p) ==
    /\ Len(p) > Len(OUTPUT_DIR)
    /\ SubSeq(p, 1, Len(OUTPUT_DIR)) = OUTPUT_DIR
    /\ EndsWith(p, suffix \o backend_suffix \o <<".result">>)

\* ------------------------------------------------ extract_error_summary
\* Words a build-output line is made of.  No text pattern of the script
\* straddles two words.
\* the words whose text contains the text pat
Occurs(pat) ==
    CASE pat = "error:" -> {"error: "}
      [] pat = ": "     -> {": ", "error: "}
      [] OTHER          -> {pat}

\* grep -q / grep on one line: the line contains one of the texts in pats
LineMatches(pats, l) == \E k \in 1..Len(l) : \E p \in pats : l[k] \in Occurs(p)

RECURSIVE grep(_, _)
\* grep [-E] "p1|p2" file: the matching lines, in file order
grep(pats, out) ==
    IF out = <<>> THEN <<>>
    ELSE IF LineMatches(pats, Head(out)) THEN <<Head(out)>> \o grep(pats, Tail(out))
         ELSE grep(pats, Tail(out))

\* head -1
head1(ls) == IF ls = <<>> THEN <<>> ELSE Head(ls)

tailLast(ls) == IF ls = <<>> THEN <<>> ELSE <<ls[Len(ls)]>>

\* tail -3
tail3(ls) == IF Len(ls) <= 3 THEN ls ELSE SubSeq(ls, Len(ls) - 2, Len(ls))

\* sed 's/.*PAT//' on one line: greedy, cuts through the last occurrence
sedStrip(pat, l) ==
    LET hits == {k \in 1..Len(l) : l[k] \in Occurs(pat)}
    IN  IF hits = {} THEN l
        ELSE LET last == CHOOSE k \in hits : \A j \in hits : j <= k
             IN  SubSeq(l, last + 1, Len(l))

extract_error_summary_generic_first(out) ==
    IF grep({"error:"}, out) # <<>>
    THEN sedStrip("error: ", head1(grep({"error:"}, out)))
    ELSE IF grep({"Unresolved reference"}, out) # <<>>
    THEN sedStrip(": ", head1(grep({"Unresolved reference"}, out)))
    ELSE IF grep({"cannot find symbol"}, out) # <<>>
    THEN head1(grep({"cannot find symbol"}, out))
    ELSE IF grep({"not found"}, out) # <<>>
    THEN sedStrip(": ", head1(grep({"not found", "Not found"}, out)))
    ELSE IF grep({"expected"}, out) # <<>>
    THEN head1(grep({"expected"}, out))
    ELSE head1(tail3(out))

\* extract_error_summary, lines 826-842 (and 111-128)
extract_error_summary(out) ==
    IF grep({"Unresolved reference"}, out) # <<>>
    THEN sedStrip(": ", head1(grep({"Unresolved reference"}, out)))
    ELSE IF grep({"cannot find symbol"}, out) # <<>>
    THEN head1(grep({"cannot find symbol"}, out))
    ELSE IF grep({"not found"}, out) # <<>>
    THEN sedStrip(": ", head1(grep({"not found", "Not found"}, out)))
    ELSE IF grep({"expected"}, out) # <<>>
    THEN head1(grep({"expected"}, out))
    ELSE IF grep({"error:"}, out) # <<>>
    THEN sedStrip("error: ", head1(grep({"error:"}, out)))
    ELSE head1(tail3(out))

\* lines a Gradle/Kotlin build prints
BuildLines ==
    { <<>>,
      <<"w">>,
      <<"v">>,
      <<"e", ": ", "Unresolved reference", ": ", "w">>,
      <<"w", ": ", "Unresolved reference", ": ", "v">>,
      <<"error: ", "w">>,
      <<"v", ": ", "error: ", "expected", "w">>,
      <<"error: ", "cannot find symbol">>,
      <<"w", ": ", "not found">>,
      <<"Not found", ": ", "v">> }

RECURSIVE SeqsUpTo(_, _)
\* all sequences over S of length at most n
SeqsUpTo(S, n) ==
    IF n = 0 THEN {<<>>}
    ELSE LET shorter == SeqsUpTo(S, n - 1)
         IN  shorter \cup {Append(s, x) : s \in {t \in shorter : Len(t) = n - 1}, x \in S}

\* the output of the failing build of an evaluation run
FailedBuildOutput == << <<"e", ": ", "Unresolved reference", ": ", "w">>, <<"v">> >>

\* tail -50 "$build_output", line 926
TAIL_LINES == 50

\* tail -n
tail(ls, n) == IF Len(ls) <= n THEN ls ELSE SubSeq(ls, Len(ls) - n + 1, Len(ls))

\* a failing build's output of TAIL_LINES + 2 lines: progress lines, the
\* task line of this attempt, then the error
LongBuildOutput(attempt) ==
    << <<"w">>, <<"w">> >> \o [k \in 1..(TAIL_LINES - 3) |-> <<"v">>]
    \o << <<"task", ToString(attempt)>> >> \o FailedBuildOutput

\* what ./gradlew ... > "$build_output" 2>&1 of a failing build leaves in
\* the file, line 916
BuildOutput(e, attempt) ==
    IF e.build_output = "long" THEN LongBuildOutput(attempt) ELSE FailedBuildOutput

\* .[i].query of the manifest
eval_query(i) == <<"query", ToString(i), "Use the viaduct skill for guidance.">>

\* full_query, lines 882-893: without the skill the reference to it is cut
full_query(i, dir) ==
    <<"Work ONLY in", dir, "Implement:",
      IF USE_SKILL = 1 THEN eval_query(i)
      ELSE SelectSeq(eval_query(i), LAMBDA w : w # "Use the viaduct skill for guidance.")>>

\* fix_query, lines 926-931
fix_query(build_error, dir) == <<"Build failed. Fix it:", build_error, "Work ONLY in", dir>>

\* ------------------------------------------------------- run_evaluation
\* the text "" as a sequence of '|'-separated fields: one empty field
EmptyText == << <<>> >>

\* retry_errors="$retry_errors|$error_summary" after the -n test, lines 922-923
JoinRetryError(retry_errors, error_summary) ==
    IF retry_errors # EmptyText THEN Append(retry_errors, error_summary)
    ELSE <<error_summary>>

RECURSIVE CountMatching(_, _)
\* the pattern loops of lines 944-972: how many of the (non-empty) patterns
\* grep -rqE finds in the workspace sources src
CountMatching(patterns, src) ==
    IF patterns = <<>> THEN 0
    ELSE (IF Head(patterns) \in src THEN 1 ELSE 0) + CountMatching(Tail(patterns), src)

FailReasonLastOnly(build_success, patterns_found, patterns_total, negative_failed) ==
    IF negative_failed > 0 THEN <<"forbidden_patterns">>
    ELSE IF patterns_found # patterns_total THEN <<"missing_patterns">>
    ELSE IF build_success = 0 THEN <<"build_failed">> ELSE <<>>

\* lines 995-998
FailReason(build_success, patterns_found, patterns_total, negative_failed) ==
    LET r1 == IF build_success = 0 THEN <<"build_failed">> ELSE <<>>
        r2 == IF patterns_found # patterns_total
              THEN (IF r1 # <<>> THEN r1 \o <<",">> ELSE r1) \o <<"missing_patterns">>
              ELSE r1
        r3 == IF negative_failed > 0
              THEN (IF r2 # <<>> THEN r2 \o <<",">> ELSE r2) \o <<"forbidden_patterns">>
              ELSE r2
    IN  r3

GradePassesIgnoringBuild(build_success, patterns_found, patterns_total, negative_failed) ==
    /\ patterns_found = patterns_total
    /\ negative_failed = 0

\* line 990
GradePasses(build_success, patterns_found, patterns_total, negative_failed) ==
    /\ build_success = 1
    /\ patterns_found = patterns_total
    /\ negative_failed = 0

TimingInfo == <<"timing">>

\* the record written at lines 991 and 999, as its fields
ResultRecord(i, t, patterns_found, patterns_total, negative_failed) ==
    IF GradePasses(t.build_success, patterns_found, patterns_total, negative_failed)
    THEN << <<"PASS">>, EvalId(i), <<ToString(t.attempt)>> >> \o t.retry_errors \o <<TimingInfo>>
    ELSE << <<"FAIL">>, EvalId(i), <<ToString(t.attempt)>>,
            FailReason(t.build_success, patterns_found, patterns_total, negative_failed) >>
         \o t.retry_errors \o <<TimingInfo>>

\* the local state of one run_evaluation process; wrote records that it has
\* written its result file
IdleTask ==
    [phase |-> "idle", attempt |-> 0, build_success |-> 0, retry_errors |-> EmptyText,
     attempt_lines |-> <<>>, build_log |-> <<>>, repairs |-> 0, src |-> {},
     eval_passed |-> 0, wrote |-> FALSE, transcript |-> <<>>, query |-> <<>>,
     usage |-> <<>>]

\* a process that has ended keeps no local state
Ended(how, wrote) == [IdleTask EXCEPT !.phase = how, !.wrote = wrote]

Alive(i) == task[i].phase \in {"setup", "agent", "build", "repair", "verify", "written"}

Terminated(i) == task[i].phase \in {"done", "killed"}

\* echo ... > file
WriteFile(fs, path, content) == [p \in DOMAIN fs \cup {path} |-> IF p = path THEN content ELSE fs[p]]

LoopContinuesOneMore(attempt) == attempt <= MAX_RETRIES + 1

\* while [[ $attempt -le $MAX_RETRIES ]], line 914
LoopContinues(attempt) == attempt <= MAX_RETRIES

RepairAllowedAtLast(attempt) == attempt <= MAX_RETRIES

\* if [[ $attempt -lt $MAX_RETRIES ]], line 925
RepairAllowed(attempt) == attempt < MAX_RETRIES

AfterSuccessNoBreak(attempt) ==
    [phase |-> IF attempt + 1 <= MAX_RETRIES THEN "build" ELSE "verify", attempt |-> attempt + 1]

AfterSuccessSkipVerify(attempt) == [phase |-> "written", attempt |-> attempt]

\* build_success=1; break, lines 917-918: where the loop goes after a build
\* that succeeded at this attempt
AfterSuccess(attempt) == [phase |-> "verify", attempt |-> attempt]

\* what the harness can find around it
Envs ==
    [template   : {"ok", "partial", "missing"},   \* cp -r of the template: all, some, nothing copied
     credential : {"api_key", "token", "no_token"}, \* ANTHROPIC_API_KEY, or what iap-auth yields
     agent_exit : {0, 1},                            \* exit code of the agent CLI
     build_output : {"short", "long"},               \* how much a failing build prints
     prewarm_exit : {0, 1},                          \* exit code of the pre-warm gradle build
     crush_db : {"sessions", "unreadable", "absent"}, \* $work_dir/.crush/crush.db after crush ran
     sqlite3 : BOOLEAN]                              \* command -v sqlite3

\* setup_project, lines 645-686: its return code.  The exit code of cp -r is
\* not tested; the scaffold step fails when it cannot cd into the workspace
\* or when gradle fails.
setup_project(template, scaffold_ok) ==
    IF template = "missing" THEN 1
    ELSE IF scaffold_ok THEN 0 ELSE 1

\* setup_project and its failure branch, lines 645-686 and 868-874
Setup(i) ==
    /\ task[i].phase = "setup"
    /\ \E scaffold_ok \in BOOLEAN :
         /\ dirs' = IF env.template = "missing" THEN dirs \ {work_dir(i)}
                    ELSE dirs \cup {work_dir(i)}
         /\ IF setup_project(env.template, scaffold_ok) = 0
            THEN /\ task' = [task EXCEPT ![i].phase = "agent"]
                 /\ UNCHANGED results
            ELSE /\ results' = WriteFile(results, result_file(i),
                                  << <<"FAIL">>, EvalId(i), <<"0">>, <<"SETUP_FAILED">> >>)
                 /\ task' = [task EXCEPT ![i] = Ended("done", TRUE)]
    /\ UNCHANGED <<cfgVars, mainVars, extractVars>>

run_with_claude_propagating(credential, agent_exit) ==
    IF credential = "no_token" THEN 1 ELSE agent_exit

\* run_with_claude, lines 711-749: its return code; claude ... || true
run_with_claude(credential, agent_exit) ==
    IF credential = "no_token" THEN 1 ELSE 0

\* run_with_crush, lines 752-781: its return code; ( ... return 1 ... ) || true
run_with_crush(credential, agent_exit) == 0

\* run_agent, lines 784-794
run_agent(backend, credential, agent_exit) ==
    IF backend = "crush" THEN run_with_crush(credential, agent_exit)
    ELSE run_with_claude(credential, agent_exit)

\* what one call of run_agent appends to the transcript file
AgentText(backend, credential, agent_exit) ==
    IF credential = "no_token"
    THEN (IF backend = "crush" THEN <<"Failed to get iap-auth token">> ELSE <<>>)
    ELSE IF agent_exit = 0 THEN <<"agent output">> ELSE <<"agent error output">>

\* what one call of the agent adds to the token accounts of the workspace:
\* run_with_claude appends a line to .claude-usage.jsonl when the response is
\* JSON with a result, line 741; crush keeps a row of its sessions table
Usage(backend, credential, agent_exit) ==
    IF credential = "no_token" \/ (backend = "claude" /\ agent_exit # 0) THEN <<>>
    ELSE << [input_tokens |-> 3, output_tokens |-> 2, cache_creation |-> 1, cache_read |-> 1,
             cost |-> 1] >>

RECURSIVE Sum(_)
\* jq's add and SQL's COALESCE(SUM(...), 0) over the accounts
Sum(ns) == IF ns = <<>> THEN 0 ELSE Head(ns) + Sum(Tail(ns))

extract_tokens_no_default(backend, usage, crush_db, sqlite3) ==
    IF usage = <<>> \/ (backend = "crush" /\ (crush_db # "sessions" \/ ~sqlite3)) THEN <<>>
    ELSE <<Sum([k \in 1..Len(usage) |-> usage[k].input_tokens + usage[k].cache_creation
                                           + usage[k].cache_read]),
           Sum([k \in 1..Len(usage) |-> usage[k].output_tokens]),
           Sum([k \in 1..Len(usage) |-> usage[k].cost])>>

\* extract_tokens, lines 800-823: the counters prompt|completion|cost it
\* writes; usage is what the agent calls of the run accounted for
extract_tokens(backend, usage, crush_db, sqlite3) ==
    IF backend = "claude" /\ usage # <<>>
    THEN <<Sum([k \in 1..Len(usage) |-> usage[k].input_tokens + usage[k].cache_creation
                                           + usage[k].cache_read]),
           Sum([k \in 1..Len(usage) |-> usage[k].output_tokens]),
           Sum([k \in 1..Len(usage) |-> usage[k].cost])>>
    ELSE IF backend = "crush" /\ crush_db # "absent" /\ sqlite3
    THEN (IF crush_db = "sessions"
          THEN <<Sum([k \in 1..Len(usage) |-> usage[k].input_tokens + usage[k].cache_creation
                                                 + usage[k].cache_read]),
                 Sum([k \in 1..Len(usage) |-> usage[k].output_tokens]),
                 Sum([k \in 1..Len(usage) |-> usage[k].cost])>>
          ELSE <<0, 0, 0>>)
    ELSE <<0, 0, 0>>

\* the initial run_agent call, lines 896-903, and the loop entry, lines 908-914
InitialAgent(i) ==
    /\ task[i].phase = "agent"
    /\ IF run_agent(BACKEND, env.credential, env.agent_exit) = 0
       THEN /\ task' = [task EXCEPT
                   ![i].phase = IF LoopContinues(1) THEN "build" ELSE "verify",
                   ![i].attempt = 1,
                   ![i].transcript = AgentText(BACKEND, env.credential, env.agent_exit),
                   ![i].usage = Usage(BACKEND, env.credential, env.agent_exit),
                   ![i].query = full_query(i, work_dir(i))]
            /\ UNCHANGED results
       ELSE /\ results' = WriteFile(results, result_file(i),
                             << <<"FAIL">>, EvalId(i), <<"0">>, <<"AUTH_FAILED">> >>)
            /\ task' = [task EXCEPT ![i] = Ended("done", TRUE)]
    /\ UNCHANGED <<cfgVars, mainVars, dirs, extractVars>>

\* local error_summary=$(extract_error_summary "$build_output"), line 920,
\* of the failing build
FailedBuildSummary == extract_error_summary(FailedBuildOutput)

\* one gradle build of the loop, lines 914-925 and 936
Build(i) ==
    /\ task[i].phase = "build"
    /\ \E ok \in BOOLEAN :
         LET t == task[i] IN
         IF ok
         THEN task' = [task EXCEPT ![i].build_success = 1,
                                   ![i].build_log = Append(t.build_log, TRUE),
                                   ![i].phase = AfterSuccess(t.attempt).phase,
                                   ![i].attempt = AfterSuccess(t.attempt).attempt]
         ELSE LET error_summary == IF env.build_output = "short" THEN FailedBuildSummary
                                   ELSE extract_error_summary(BuildOutput(env, t.attempt))
              IN
              task' = [task EXCEPT
                  ![i].build_log = Append(t.build_log, FALSE),
                  ![i].attempt_lines = Append(t.attempt_lines, <<t.attempt, error_summary>>),
                  ![i].retry_errors = JoinRetryError(t.retry_errors, error_summary),
                  ![i].phase = IF RepairAllowed(t.attempt) THEN "repair"
                               ELSE IF LoopContinues(t.attempt + 1) THEN "build" ELSE "verify",
                  ![i].attempt = IF RepairAllowed(t.attempt) THEN t.attempt ELSE t.attempt + 1]
    /\ UNCHANGED <<cfgVars, mainVars, results, dirs, extractVars>>

\* the repair call of run_agent, lines 925-934, whose return code is not
\* tested, then ((attempt++)) and the loop test
Repair(i) ==
    /\ task[i].phase = "repair"
    /\ task' = [task EXCEPT ![i].repairs = @ + 1,
                            ![i].transcript = @ \o AgentText(BACKEND, env.credential, env.agent_exit),
                            ![i].usage = @ \o Usage(BACKEND, env.credential, env.agent_exit),
                            ![i].query = fix_query(tail(BuildOutput(env, task[i].attempt), TAIL_LINES),
                                                   work_dir(i)),
                            ![i].attempt = @ + 1,
                            ![i].phase = IF LoopContinues(task[i].attempt + 1) THEN "build" ELSE "verify"]
    /\ UNCHANGED <<cfgVars, mainVars, results, dirs, extractVars>>

\* the patterns one evaluation checks
PatternsOf(i) ==
    {VerifyPatterns(i)[k] : k \in 1..Len(VerifyPatterns(i))}
    \cup {NegativePatterns(i)[k] : k \in 1..Len(NegativePatterns(i))}

\* pattern checks and grading, lines 939-1001
VerifyAndGrade(i) ==
    /\ task[i].phase = "verify"
    /\ \E src \in SUBSET PatternsOf(i) :
         LET t == task[i]
             patterns_total == Len(VerifyPatterns(i))
             patterns_found == CountMatching(VerifyPatterns(i), src)
             negative_failed == CountMatching(NegativePatterns(i), src)
         IN  /\ results' = WriteFile(results, result_file(i),
                              ResultRecord(i, t, patterns_found, patterns_total, negative_failed))
             /\ task' = [task EXCEPT
                    ![i].src = src,
                    ![i].eval_passed =
                        IF GradePasses(t.build_success, patterns_found, patterns_total, negative_failed)
                        THEN 1 ELSE 0,
                    ![i].wrote = TRUE,
                    ![i].phase = "written"]
    /\ UNCHANGED <<cfgVars, mainVars, dirs, extractVars>>

FinishArchiveFailedOnly(i) ==
    /\ task[i].phase = "written"
    /\ dirs' = (IF task[i].eval_passed = 0
                THEN dirs \cup {workspace_dir(i)} ELSE dirs) \ {work_dir(i)}
    /\ results' = WriteFile(results, tokens_file(i),
                          extract_tokens(BACKEND, task[i].usage, env.crush_db, env.sqlite3))
    /\ task' = [task EXCEPT ![i] = Ended("done", TRUE)]
    /\ UNCHANGED <<cfgVars, mainVars, extractVars>>

\* token extraction, archive, cleanup and return, lines 1003-1017
Finish(i) ==
    /\ task[i].phase = "written"
    /\ dirs' = (IF task[i].eval_passed = 0 \/ task[i].attempt > 1
                THEN dirs \cup {workspace_dir(i)} ELSE dirs) \ {work_dir(i)}
    /\ results' = WriteFile(results, tokens_file(i),
                          extract_tokens(BACKEND, task[i].usage, env.crush_db, env.sqlite3))
    /\ task' = [task EXCEPT ![i] = Ended("done", TRUE)]
    /\ UNCHANGED <<cfgVars, mainVars, extractVars>>

\* The processes of one scheduler run: the script, and for each evaluation
\* the subshell of run_with_timeout ... &, in it the run_evaluation process
\* ("$@" &, cmd_pid) and the watchdog subshell, and the tool (agent CLI or
\* gradle client) the run_evaluation process runs.
Procs ==
    {<<"main", 0>>} \cup {<<kind, i>> : kind \in {"wrapper", "task", "watchdog", "tool"}, i \in Evals}

\* the parent of a process
ppid(p) ==
    CASE p[1] = "wrapper"  -> <<"main", 0>>
      [] p[1] = "task"     -> <<"wrapper", p[2]>>
      [] p[1] = "watchdog" -> <<"wrapper", p[2]>>
      [] p[1] = "tool"     -> <<"task", p[2]>>
      [] OTHER             -> p

\* local cmd_pid=$!, line 598
cmd_pid(i) == <<"task", i>>

\* pgrep -P pid
pgrep_P(pid) == {q \in Procs : q # pid /\ ppid(q) = pid}

\* every process of the script's process group
kill_group(pid) == Procs

RECURSIVE kill_tree(_)
\* kill_tree, lines 579-588: the processes it signals
kill_tree(pid) == {pid} \cup UNION {kill_tree(child) : child \in pgrep_P(pid)}

\* the watchdog of run_with_timeout, lines 601-612: its sleep ends while the
\* task is alive, and kill_tree TERM ends the processes it signals
WatchdogFire(i) ==
    /\ Alive(i)
    /\ LET signalled == kill_tree(cmd_pid(i))
       IN  task' = [j \in Evals |->
                      IF Alive(j) /\ cmd_pid(j) \in signalled
                      THEN Ended("killed", task[j].wrote)
                      ELSE task[j]]
    /\ UNCHANGED <<cfgVars, mainVars, results, dirs, extractVars>>

\* ----------------------------------------------------------------- main
EmptyReport ==
    [passed |-> 0, failed |-> 0, one_shot |-> 0, total_run |-> 0,
     total_prompt_tokens |-> 0, total_completion_tokens |-> 0,
     success_oneshot |-> <<>>, success_retry |-> <<>>, failure_list |-> <<>>]

\* local pt=0 ct=0 cost="0"; IFS='|' read -r pt ct cost < "$tokens_file",
\* lines 1162-1166
read_tokens(fs, i) == IF tokens_file(i) \in DOMAIN fs THEN fs[tokens_file(i)] ELSE <<0, 0, 0>>

\* cut -d'|' -fN of a record
Field(fields, n) == IF n <= Len(fields) THEN fields[n] ELSE <<>>

CollectOneSkippingMissing(rep, i) ==
    LET counted == [rep EXCEPT !.total_run = @ + 1,
                               !.total_prompt_tokens = @ + read_tokens(results, i)[1],
                               !.total_completion_tokens = @ + read_tokens(results, i)[2]] IN
    IF result_file(i) \in DOMAIN results
    THEN LET result == results[result_file(i)] IN
         IF Field(result, 1) = <<"PASS">>
         THEN IF Field(result, 3) = <<"1">>
              THEN [counted EXCEPT !.passed = @ + 1, !.one_shot = @ + 1,
                                   !.success_oneshot = Append(@, i)]
              ELSE [counted EXCEPT !.passed = @ + 1,
                                   !.success_retry = Append(@, <<i, Field(result, 3), Field(result, 4)>>)]
         ELSE [counted EXCEPT !.failed = @ + 1,
                              !.failure_list = Append(@, <<i, Field(result, 4)>>)]
    ELSE counted

\* one iteration of the collection loop, lines 1155-1202
CollectOne(rep, i) ==
    LET counted == [rep EXCEPT !.total_run = @ + 1,
                               !.total_prompt_tokens = @ + read_tokens(results, i)[1],
                               !.total_completion_tokens = @ + read_tokens(results, i)[2]] IN
    IF result_file(i) \in DOMAIN results
    THEN LET result == results[result_file(i)]
             status == Field(result, 1)
             attempt == Field(result, 3)
         IN  IF status = <<"PASS">>
             THEN IF attempt = <<"1">>
                  THEN [counted EXCEPT !.passed = @ + 1, !.one_shot = @ + 1,
                                       !.success_oneshot = Append(@, i)]
                  ELSE [counted EXCEPT !.passed = @ + 1,
                                       !.success_retry = Append(@, <<i, attempt, Field(result, 4)>>)]
             ELSE [counted EXCEPT !.failed = @ + 1,
                                  !.failure_list = Append(@, <<i, Field(result, 4)>>)]
    ELSE [counted EXCEPT !.failed = @ + 1,
                         !.failure_list = Append(@, <<i, <<"timeout">> >>)]

RECURSIVE Collect(_, _)
Collect(rep, is) == IF is = <<>> THEN rep ELSE Collect(CollectOne(rep, Head(is)), Tail(is))

\* p is a file or directory of OUTPUT_DIR whose name ends with ending
InOutputDir(p, ending) ==
    /\ Len(p) > Len(OUTPUT_DIR)
    /\ SubSeq(p, 1, Len(OUTPUT_DIR)) = OUTPUT_DIR
    /\ EndsWith(p, ending)

\* rm -rf "$OUTPUT_DIR"/*-workspace; rm -f "$OUTPUT_DIR"/*.result ..., lines 1043-1050
CleanGlob(p) == InOutputDir(p, <<"-workspace">>) \/ InOutputDir(p, <<".result">>)

\* local prewarm_dir="$WORK_BASE-prewarm", line 628
prewarm_dir == WORK_BASE \o <<"-">> \o <<"prewarm">>

\* the exit code of (cd "$prewarm_dir" && ./gradlew ... 2>&1), line 635: with
\* nothing copied the cd fails
prewarm_build(e) == IF e.template = "missing" THEN 1 ELSE e.prewarm_exit

\* main up to the pre-warm build, lines 1025-1061 and 627-632: cleans the
\* outputs if asked to, and prewarm_gradle copies the template to its
\* scratch directory
MainBegin ==
    /\ pc = "main"
    /\ results' = [p \in {q \in DOMAIN results : ~(CLEAN = 1 /\ CleanGlob(q))} |-> results[p]]
    /\ dirs' = ({d \in dirs : ~(CLEAN = 1 /\ CleanGlob(d))} \ {prewarm_dir})
                \cup (IF env.template # "missing" THEN {prewarm_dir} ELSE {})
    /\ pc' = "prewarm"
    /\ UNCHANGED <<cfgVars, idx, running_pids, completed, task, report, exit_code, skill_exit,
                   reports, comparison, extractVars>>

PrewarmBuildFatal ==
    /\ pc = "prewarm"
    /\ dirs' = dirs \ {prewarm_dir}
    /\ results' = [p \in {q \in DOMAIN results : ~ClearGlob(q)} |-> results[p]]
    /\ pc' = IF prewarm_build(env) # 0 THEN "exit"
             ELSE IF evals_to_run = <<>> THEN "wait" ELSE "sched"
    /\ exit_code' = IF prewarm_build(env) # 0 THEN 1 ELSE exit_code
    /\ idx' = 1
    /\ running_pids' = <<>>
    /\ completed' = 0
    /\ task' = [i \in Evals |-> IdleTask]
    /\ UNCHANGED <<cfgVars, report, skill_exit, reports, comparison, extractVars>>

\* the mutant of main that starts the tasks without clearing old result files
PrewarmBuildKeepsResults ==
    /\ pc = "prewarm"
    /\ dirs' = dirs \ {prewarm_dir}
    /\ pc' = IF evals_to_run = <<>> THEN "wait" ELSE "sched"
    /\ idx' = 1
    /\ running_pids' = <<>>
    /\ completed' = 0
    /\ task' = [i \in Evals |-> IdleTask]
    /\ UNCHANGED <<cfgVars, results, report, exit_code, skill_exit, reports, comparison,
                   extractVars>>

\* the pre-warm build and main from there to the start loop, lines 634-642
\* and 1063-1091: whatever the build's exit code, prewarm_gradle prints a
\* line and removes its scratch directory; main clears the old result files;
\* no run_evaluation process of this call of main exists yet
PrewarmBuild ==
    /\ pc = "prewarm"
    /\ dirs' = dirs \ {prewarm_dir}
    /\ results' = [p \in {q \in DOMAIN results : ~ClearGlob(q)} |-> results[p]]
    /\ pc' = IF evals_to_run = <<>> THEN "wait" ELSE "sched"
    /\ idx' = 1
    /\ running_pids' = <<>>
    /\ completed' = 0
    /\ task' = [i \in Evals |-> IdleTask]
    /\ UNCHANGED <<cfgVars, report, exit_code, skill_exit, reports, comparison, extractVars>>

MustWaitOffByOne(n) == n > MAX_PARALLEL

\* while [[ ${#running_pids[@]} -ge $MAX_PARALLEL ]], line 1101
MustWait(n) == n >= MAX_PARALLEL

\* one pass of the wait loop, lines 1101-1120: drop the finished jobs
PollSlots ==
    /\ pc = "sched"
    /\ MustWait(Len(running_pids))
    /\ LET new_pids == SelectSeq(running_pids, LAMBDA i : ~Terminated(i)) IN
         /\ running_pids' = new_pids
         /\ completed' = completed + (Len(running_pids) - Len(new_pids))
    /\ UNCHANGED <<cfgVars, pc, idx, report, exit_code, skill_exit, reports, comparison, task,
                   results, dirs, extractVars>>

\* start of one evaluation under run_with_timeout, lines 1123-1126
StartEval ==
    /\ pc = "sched"
    /\ ~MustWait(Len(running_pids))
    /\ LET i == evals_to_run[idx] IN
         /\ task' = [task EXCEPT ![i] = [IdleTask EXCEPT !.phase = "setup"]]
         /\ running_pids' = Append(running_pids, i)
    /\ idx' = idx + 1
    /\ pc' = IF idx = Len(evals_to_run) THEN "wait" ELSE "sched"
    /\ UNCHANGED <<cfgVars, completed, report, exit_code, skill_exit, reports, comparison,
                   results, dirs, extractVars>>

\* wait "$pid" for the next remaining job, lines 1131-1133
WaitJob ==
    /\ pc = "wait"
    /\ running_pids # <<>>
    /\ Terminated(Head(running_pids))
    /\ running_pids' = Tail(running_pids)
    /\ UNCHANGED <<cfgVars, pc, idx, completed, report, exit_code, skill_exit, reports,
                   comparison, task, results, dirs, extractVars>>

\* result collection, lines 1147-1202
Aggregate ==
    /\ pc = "wait"
    /\ running_pids = <<>>
    /\ report' = Collect(EmptyReport, evals_to_run)
    /\ pc' = "report"
    /\ UNCHANGED <<cfgVars, idx, running_pids, completed, exit_code, skill_exit, reports,
                   comparison, task, results, dirs, extractVars>>

\* [[ $failed -gt 0 ]] && return 1 || return 0, line 1310
MainCode(rep) == IF rep.failed > 0 THEN 1 ELSE 0

CompareCodeSkillOnly(s_exit, n_exit) == IF s_exit # 0 THEN 1 ELSE 0

\* [[ $skill_exit -ne 0 || $noskill_exit -ne 0 ]] && exit 1; exit 0, lines 1450-1451
CompareCode(s_exit, n_exit) == IF s_exit # 0 \/ n_exit # 0 THEN 1 ELSE 0

\* run_compare up to its first call of main, lines 1313-1326
CompareBegin ==
    /\ pc = "compare"
    /\ USE_SKILL' = 1
    /\ pc' = "main"
    /\ UNCHANGED <<COMPARE, BACKEND, MAX_PARALLEL, evals_to_run, env, CLEAN, cliVars, other,
                   idx, running_pids,
                   completed, report, exit_code, skill_exit, reports, comparison, task, results,
                   dirs, extractVars>>

\* run_compare, lines 1368-1369: the result files it reads
skill_result_file(i) == OUTPUT_DIR \o EvalId(i) \o backend_suffix \o <<".result">>

noskill_result_file(i) == OUTPUT_DIR \o EvalId(i) \o <<"-noskill">> \o backend_suffix \o <<".result">>

\* run_compare, lines 1373-1412: the label of one result file
CompareLabel(fs, path) ==
    IF path \in DOMAIN fs
    THEN IF Field(fs[path], 1) = <<"PASS">>
         THEN IF Field(fs[path], 3) = <<"1">> THEN <<"one-shot">>
              ELSE <<"attempt">> \o Field(fs[path], 3)
         ELSE <<"FAIL">> \o Field(fs[path], 4)
    ELSE <<"TIMEOUT">>

\* $(( oneshot * 100 / total )), lines 1430-1431
OneShotPct(oneshot, total) == (oneshot * 100) \div total

\* the comparison report of run_compare, lines 1340-1446, built from the
\* result files fs
CompareReport(fs) ==
    LET sel == {evals_to_run[k] : k \in 1..Len(evals_to_run)}
        skill == [i \in sel |-> CompareLabel(fs, skill_result_file(i))]
        noskill == [i \in sel |-> CompareLabel(fs, noskill_result_file(i))]
        total == Cardinality(sel)
        skill_oneshot == Cardinality({i \in sel : skill[i] = <<"one-shot">>})
        noskill_oneshot == Cardinality({i \in sel : noskill[i] = <<"one-shot">>})
    IN  [skill |-> skill, noskill |-> noskill,
         delta |-> IF total > 0
                   THEN OneShotPct(skill_oneshot, total) - OneShotPct(noskill_oneshot, total)
                   ELSE 0]

\* before run_compare has printed its report
NoComparison == [skill |-> <<>>, noskill |-> <<>>, delta |-> 0]

\* main returns, line 1310; then exit $?, line 1458, or run_compare goes on:
\* the second call of main, lines 1327-1337, or its report and exit, lines
\* 1338-1451
MainReturn ==
    /\ pc = "report"
    /\ reports' = Append(reports, report)
    /\ IF COMPARE = 0
       THEN /\ exit_code' = MainCode(report)
            /\ pc' = "exit"
            /\ UNCHANGED <<USE_SKILL, skill_exit, comparison>>
       ELSE IF skill_exit = -1
       THEN /\ skill_exit' = MainCode(report)
            /\ USE_SKILL' = 0
            /\ pc' = "main"
            /\ UNCHANGED <<exit_code, comparison>>
       ELSE /\ comparison' = CompareReport(results)
            /\ exit_code' = CompareCode(skill_exit, MainCode(report))
            /\ pc' = "exit"
            /\ UNCHANGED <<USE_SKILL, skill_exit>>
    /\ UNCHANGED <<COMPARE, BACKEND, MAX_PARALLEL, evals_to_run, env, CLEAN, cliVars, other,
                   idx, running_pids,
                   completed, report, task, results, dirs, extractVars>>

\* ------------------------------------------------------- specification
\* a PASS record left by an earlier run
StaleRecord == << <<"PASS">>, <<"old">>, <<"1">>, <<>>, TimingInfo >>

RECURSIVE SubSeqs(_)
\* the subsequences of a sequence (what a filter can select)
SubSeqs(s) ==
    IF s = <<>> THEN {<<>>}
    ELSE LET rest == SubSeqs(Tail(s)) IN rest \cup {<<Head(s)>> \o r : r \in rest}

Manifest == [i \in Evals |-> i]

\* the state every run starts from, whatever the command line
Fresh ==
    /\ idx = 1
    /\ running_pids = <<>>
    /\ completed = 0
    /\ task = [i \in Evals |-> IdleTask]
    /\ dirs = {}
    /\ report = EmptyReport
    /\ exit_code = -1
    /\ skill_exit = -1
    /\ reports = <<>>
    /\ comparison = NoComparison

\* no second invocation runs
NoOther == [USE_SKILL |-> 1, BACKEND |-> "crush", pc |-> "none"]

\* a command line that gives the settings of the state, after the argument
\* loop has consumed it and MAX_PARALLEL is resolved, lines 495-551
Configured ==
    /\ args = (IF COMPARE = 1 THEN << <<"--compare">> >> ELSE <<>>)
              \o (IF CLEAN = 1 THEN << <<"--clean">> >> ELSE <<>>)
              \o (IF USE_SKILL = 0 THEN << <<"--no-skill">> >> ELSE <<>>)
              \o << <<"--backend=", BACKEND>>, <<"--parallel=", MAX_PARALLEL>> >>
    /\ argi = Len(args) + 1
    /\ environ = [BACKEND |-> <<>>, MAX_PARALLEL |-> <<>>]
    /\ EXPLICIT_PARALLEL = <<MAX_PARALLEL>>
    /\ FILTER = <<>>

\* the surroundings of the runs of Spec and SpecCompare: the template is
\* copied or cannot be read at all, the agent CLI exits with 0, and the
\* credential is there or, for the backend that tests it, missing
RunEnv(e, backend) ==
    /\ e.template \in {"ok", "missing"}
    /\ e.agent_exit = 0
    /\ e.build_output = "short"
    /\ e.prewarm_exit = 0
    /\ e.crush_db = "sessions"
    /\ e.sqlite3
    /\ e.credential \in (IF backend = "claude" THEN {"api_key", "no_token"} ELSE {"api_key"})

\* one pass of main: any mode, backend, parallelism and filter, and result
\* files of earlier runs
Init ==
    /\ CLEAN = 0
    /\ COMPARE = 0
    /\ USE_SKILL \in {0, 1}
    /\ BACKEND \in {"crush", "claude"}
    /\ MAX_PARALLEL \in 0..NumEvals
    /\ evals_to_run \in SubSeqs(Manifest)
    /\ pc = "main"
    /\ \E stale \in SUBSET Evals : results = [p \in {result_file(i) : i \in stale} |-> StaleRecord]
    /\ Fresh
    /\ build_out = <<>>
    /\ summary = <<>>
    /\ verifier = NoVerifier
    /\ runner = NoRunner
    /\ watchdog = NoWatchdog
    /\ NoHarness
    /\ env \in {e \in Envs : RunEnv(e, BACKEND)}
    /\ Configured
    /\ other = NoOther

TaskStep(i) ==
    \/ Setup(i)
    \/ InitialAgent(i)
    \/ Build(i)
    \/ Repair(i)
    \/ VerifyAndGrade(i)
    \/ Finish(i)
    \/ WatchdogFire(i)

Next ==
    \/ MainBegin
    \/ PrewarmBuild
    \/ PollSlots
    \/ StartEval
    \/ WaitJob
    \/ Aggregate
    \/ MainReturn
    \/ \E i \in Evals : TaskStep(i)

Spec == Init /\ [][Next]_vars

\* the steps of the main process
MainStep ==
    \/ MainBegin
    \/ PrewarmBuild
    \/ PollSlots
    \/ StartEval
    \/ WaitJob
    \/ Aggregate
    \/ MainReturn

\* one pass of main where the main process and every run_evaluation process
\* with its watchdog keep running: a process that can take a step does
Fairness ==
    /\ WF_vars(MainStep)
    /\ \A i \in Evals : WF_vars(TaskStep(i))

SpecLive == Init /\ [][Next]_vars /\ Fairness

\* the entry point, lines 1454-1459: a run with or without --compare, with
\* --sequential or --parallel=0, over a filtered manifest, and result files
\* of earlier runs of the selected evaluations
InitCompare ==
    /\ CLEAN \in {0, 1}
    /\ COMPARE \in {0, 1}
    \* run_compare sets USE_SKILL itself: --no-skill along with --compare
    \* changes nothing, and is left out
    /\ USE_SKILL \in (IF COMPARE = 1 THEN {1} ELSE {0, 1})
    /\ BACKEND \in {"crush", "claude"}
    /\ MAX_PARALLEL \in {0, 1}
    /\ evals_to_run \in SubSeqs(SubSeq(Manifest, 1, MaxCompareEvals))
    /\ pc = IF COMPARE = 1 THEN "compare" ELSE "main"
    /\ \E stale \in SUBSET {evals_to_run[k] : k \in 1..Len(evals_to_run)} :
          results = [p \in {result_file(i) : i \in stale} |-> StaleRecord]
    /\ Fresh
    /\ build_out = <<>>
    /\ summary = <<>>
    /\ verifier = NoVerifier
    /\ runner = NoRunner
    /\ watchdog = NoWatchdog
    /\ NoHarness
    /\ env \in {e \in Envs : RunEnv(e, BACKEND)}
    /\ Configured
    /\ other = NoOther

NextCompare ==
    \/ CompareBegin
    \/ Next

SpecCompare == InitCompare /\ [][NextCompare]_vars

\* p is a file or directory below dir
Below(dir, p) == Len(p) > Len(dir) /\ SubSeq(p, 1, Len(dir)) = dir

\* grep -rqE "$pattern" "$work_dir/src" 2>/dev/null, lines 948 and 965: some
\* file below dir has a line the pattern matches (a file's content is the set
\* of the patterns that match a line of it)
grep_rqE(pattern, files, dir) ==
    \E p \in DOMAIN files : Below(dir, p) /\ pattern \in files[p]

\* missing_patterns after the loop of lines 944-956, as the list it joins
missing_patterns(patterns, files, dir) ==
    SelectSeq(patterns, LAMBDA pattern : ~grep_rqE(pattern, files, dir))

\* found_negative after the loop of lines 962-972, as the list it joins
found_negative(patterns, files, dir) ==
    SelectSeq(patterns, LAMBDA pattern : grep_rqE(pattern, files, dir))

\* echo "Missing patterns: ..." >> "$errors_file" and
\* echo "Forbidden patterns found: ..." >> "$errors_file", lines 974-980:
\* the lines appended; a line that names a pattern is matched by it
ErrorLines(missing, negative) ==
    (IF missing # <<>>
     THEN {"Missing patterns:"} \cup {missing[k] : k \in 1..Len(missing)} ELSE {})
    \cup (IF negative # <<>>
          THEN {"Forbidden patterns found:"} \cup {negative[k] : k \in 1..Len(negative)}
          ELSE {})

\* the files the pattern checks of evaluation i can meet: a source file and
\* a build file of its workspace, and its errors file
VerifierPaths(i) ==
    {work_dir(i) \o <<"/src", "/Resolver.kt">>, work_dir(i) \o <<"/build.gradle.kts">>,
     errors_file(i)}

\* the pattern checks of one evaluation, over any content of its workspace
\* and any errors the loop left in the errors file
InitVerify ==
    /\ CLEAN = 0
    /\ COMPARE = 0
    /\ USE_SKILL = 1
    /\ BACKEND = "crush"
    /\ MAX_PARALLEL = 1
    /\ evals_to_run = <<>>
    /\ pc = "verify"
    /\ results = <<>>
    /\ Fresh
    /\ build_out = <<>>
    /\ summary = <<>>
    /\ env = [template |-> "ok", credential |-> "api_key", agent_exit |-> 0, build_output |-> "short",
              prewarm_exit |-> 0, crush_db |-> "sessions", sqlite3 |-> TRUE]
    /\ Configured
    /\ other = NoOther
    /\ runner = NoRunner
    /\ watchdog = NoWatchdog
    /\ NoHarness
    /\ \E i \in Evals :
         \E src \in SUBSET AllPatterns, gradle \in SUBSET AllPatterns,
            errs \in {{}, {"error: build"}} :
           verifier = [eval |-> i,
                       files |-> [p \in VerifierPaths(i) |->
                                    IF p = errors_file(i) THEN errs
                                    ELSE IF p = work_dir(i) \o <<"/build.gradle.kts">>
                                         THEN gradle ELSE src],
                       runs |-> <<>>]

\* the pattern checks and the record of their results, lines 939-980
PatternVerify ==
    /\ pc = "verify"
    /\ Len(verifier.runs) < MaxVerifyRuns
    /\ LET i == verifier.eval
           src_dir == work_dir(i) \o <<"/src">>
           missing == missing_patterns(VerifyPatterns(i), verifier.files, src_dir)
           negative == found_negative(NegativePatterns(i), verifier.files, src_dir)
       IN  verifier' = [verifier EXCEPT
                          !.files[errors_file(i)] = @ \cup ErrorLines(missing, negative),
                          !.runs = Append(@, [missing_patterns |-> missing,
                                              found_negative |-> negative])]
    /\ UNCHANGED <<cfgVars, mainVars, task, results, dirs, build_out, summary, runner,
                   watchdog, harnessVars>>

NextVerify == PatternVerify

SpecVerify == InitVerify /\ [][NextVerify]_vars

\* ------------------------------------------- EvaluationRunner (Kotlin)
\* how a process started by runCommand can end, and whether it printed.
\* "timeout": it closed its output and still ran when the timeout ended;
\* "hang": it never exits and never closes its output
Outcomes == [how : {"exit0", "exit1", "timeout", "exception", "hang"}, output : {"", "text"}]

\* process.inputStream.bufferedReader().readText(), part_005 line 174, which
\* comes before waitFor: it returns at the end of the stream, so with a
\* process that keeps its output open the call of runCommand stays there,
\* and else goes on to r
Started(o, r) == IF o.how = "hang" THEN [runner EXCEPT !.pc = "readText"] ELSE r

\* runCommand, part_005 lines 162-187: never throws an Exception
runCommand(o, ignoreExitCode) ==
    CASE o.how = "exception" -> [success |-> FALSE, output |-> "Command failed:"]
      [] o.how = "timeout"   -> [success |-> FALSE, output |-> "Command timed out after"]
      [] OTHER               -> [success |-> ignoreExitCode \/ o.how = "exit0",
                                 output |-> o.output]

\* runClaude, part_005 lines 143-157
runClaude(o) == runCommand(o, TRUE).output

Uncaught(r, stage, message) == [r EXCEPT !.raised = stage, !.pc = "thrown"]

\* catch (e: Exception) { error = e.message }, part_005 lines 119-121, for
\* an exception thrown at stage with the given message: control goes on
\* after the try block
Catch(r, stage, message) ==
    [r EXCEPT !.error = message, !.raised = stage, !.pc = "return"]

\* a call of runEvaluation for any evaluation, with or without setupQuery
InitRunner ==
    /\ CLEAN = 0
    /\ COMPARE = 0
    /\ USE_SKILL = 1
    /\ BACKEND = "crush"
    /\ MAX_PARALLEL = 1
    /\ evals_to_run = <<>>
    /\ pc = "runner"
    /\ results = <<>>
    /\ Fresh
    /\ build_out = <<>>
    /\ summary = <<>>
    /\ env = [template |-> "ok", credential |-> "api_key", agent_exit |-> 0, build_output |-> "short",
              prewarm_exit |-> 0, crush_db |-> "sessions", sqlite3 |-> TRUE]
    /\ Configured
    /\ other = NoOther
    /\ verifier = NoVerifier
    /\ watchdog = NoWatchdog
    /\ NoHarness
    /\ \E i \in Evals, setupQuery \in BOOLEAN :
         runner = [NoRunner EXCEPT !.pc = "clone", !.eval = i, !.setupQuery = setupQuery]

\* the actions of runEvaluation leave the shell harness alone
RunnerFrame ==
    UNCHANGED <<cfgVars, mainVars, task, results, dirs, build_out, summary, verifier,
                watchdog, harnessVars>>

\* git clone, part_005 lines 54-64
Clone ==
    /\ runner.pc = "clone"
    /\ \E o \in Outcomes :
         LET cloneResult == runCommand(o, FALSE)
         IN  runner' = Started(o, IF ~cloneResult.success
                                  THEN Catch(runner, "clone", <<"Clone failed:", cloneResult.output>>)
                                  ELSE [runner EXCEPT !.pc = "checkout"])
    /\ RunnerFrame

\* git checkout, part_005 lines 66-71
Checkout ==
    /\ runner.pc = "checkout"
    /\ \E o \in Outcomes :
         LET checkoutResult == runCommand(o, FALSE)
         IN  runner' = Started(o, IF ~checkoutResult.success
                                  THEN Catch(runner, "checkout", <<"Checkout failed:", checkoutResult.output>>)
                                  ELSE [runner EXCEPT !.pc = "copy"])
    /\ RunnerFrame

\* skillDir.copyRecursively(skillDestDir, overwrite = true), part_005 lines
\* 73-77: returns, or throws one of kotlin.io's FileSystemExceptions, whose
\* message is built from the file and the reason
CopySkill ==
    /\ runner.pc = "copy"
    /\ \E thrown \in {"", "NoSuchFileException", "AccessDeniedException"} :
         runner' = IF thrown # ""
                   THEN Catch(runner, "copy", <<thrown>>)
                   ELSE [runner EXCEPT !.pc = IF runner.setupQuery THEN "setup" ELSE "claude"]
    /\ RunnerFrame

\* eval.setupQuery?.let { runClaude(setupQuery, workDir) }, part_005 lines 79-83
SetupQuery ==
    /\ runner.pc = "setup"
    /\ \E o \in Outcomes : runner' = Started(o, [runner EXCEPT !.pc = "claude"])
    /\ RunnerFrame

\* claudeOutput = runClaude(eval.query, workDir), part_005 lines 85-87
RunClaude ==
    /\ runner.pc = "claude"
    /\ \E o \in Outcomes :
         runner' = Started(o, [runner EXCEPT !.claudeOutput = runClaude(o), !.pc = "gradle"])
    /\ RunnerFrame

\* the gradle build, part_005 lines 89-97
GradleBuild ==
    /\ runner.pc = "gradle"
    /\ \E o \in Outcomes :
         LET gradleResult == runCommand(o, FALSE)
         IN  runner' = Started(o, [runner EXCEPT
                          !.buildOutput = gradleResult.output,
                          !.buildSuccess = gradleResult.success,
                          !.pc = IF VerifyPatterns(runner.eval) # <<>> THEN "patterns"
                                 ELSE "return"])
    /\ RunnerFrame

\* one turn of the loop over eval.verifyPatterns, part_005 lines 103-116
CheckPattern ==
    /\ runner.pc = "patterns"
    /\ \E o \in Outcomes :
         LET checked == Len(runner.patternsFound) + Len(runner.patternsMissing)
             pattern == VerifyPatterns(runner.eval)[checked + 1]
             grepResult == runCommand(o, TRUE)
         IN  runner' = Started(o, [runner EXCEPT
                          !.patternsFound = IF grepResult.output # ""
                                            THEN Append(@, pattern) ELSE @,
                          !.patternsMissing = IF grepResult.output # ""
                                              THEN @ ELSE Append(@, pattern),
                          !.pc = IF checked + 1 = Len(VerifyPatterns(runner.eval))
                                 THEN "return" ELSE "patterns"])
    /\ RunnerFrame

\* part_005 lines 123-137
Return ==
    /\ runner.pc = "return"
    /\ LET passed == /\ runner.buildSuccess
                     /\ runner.patternsMissing = <<>>
                     /\ runner.error = null
       IN  runner' = [runner EXCEPT
                        !.pc = "returned",
                        !.result = [passed |-> passed,
                                    buildSuccess |-> runner.buildSuccess,
                                    patternsFound |-> runner.patternsFound,
                                    patternsMissing |-> runner.patternsMissing,
                                    claudeOutput |-> runner.claudeOutput,
                                    buildOutput |-> runner.buildOutput,
                                    error |-> runner.error]]
    /\ RunnerFrame

NextRunner ==
    \/ Clone
    \/ Checkout
    \/ CopySkill
    \/ SetupQuery
    \/ RunClaude
    \/ GradleBuild
    \/ CheckPattern
    \/ Return

SpecRunner == InitRunner /\ [][NextRunner]_vars

\* the thread that called runEvaluation goes on whenever it can
SpecRunnerLive == SpecRunner /\ WF_vars(NextRunner)

\* ------------------------------------------ the watchdog, signal by signal
RECURSIVE kill_tree_order(_, _), kill_each(_, _)
kill_tree_parent_first(pid, live) ==
    <<pid>> \o kill_each(pgrep_P(pid) \cap live, live)

\* kill_tree, lines 579-588, as the order of its kill calls: pgrep -P sees
\* the live children, each child's tree is signalled, then pid itself
kill_tree_order(pid, live) ==
    kill_each(pgrep_P(pid) \cap live, live) \o <<pid>>

\* for child in $children; do kill_tree "$child" "$signal"; done, lines 584-586
kill_each(children, live) ==
    IF children = {} THEN <<>>
    ELSE LET child == CHOOSE c \in children : TRUE
         IN  kill_tree_order(child, live) \o kill_each(children \ {child}, live)

\* one run_with_timeout of evaluation i as it starts: the run_evaluation
\* process and its tool live, the watchdog sleeps, the wrapper waits
NewWatchdog(i) ==
    [eval |-> i, pc |-> "sleep", wrapper |-> "wait", live |-> {<<"task", i>>, <<"tool", i>>},
     pending |-> <<>>, signals |-> <<>>, seen |-> {}, early |-> FALSE, graced |-> FALSE,
     alive_after_grace |-> FALSE]

\* run_with_timeout for any evaluation, lines 592-624
InitWatchdog ==
    /\ CLEAN = 0
    /\ COMPARE = 0
    /\ USE_SKILL = 1
    /\ BACKEND = "crush"
    /\ MAX_PARALLEL = 1
    /\ evals_to_run = <<>>
    /\ pc = "watchdog"
    /\ results = <<>>
    /\ Fresh
    /\ build_out = <<>>
    /\ summary = <<>>
    /\ verifier = NoVerifier
    /\ runner = NoRunner
    /\ env = [template |-> "ok", credential |-> "api_key", agent_exit |-> 0, build_output |-> "short",
              prewarm_exit |-> 0, crush_db |-> "sessions", sqlite3 |-> TRUE]
    /\ Configured
    /\ other = NoOther
    /\ NoHarness
    /\ \E i \in Evals : watchdog = NewWatchdog(i)

\* the steps of run_with_timeout leave the rest of the harness alone
WatchdogFrame ==
    UNCHANGED <<cfgVars, mainVars, task, results, dirs, build_out, summary, verifier, runner,
                harnessVars>>

\* the tool the run_evaluation process waits for ends by itself
ToolExit ==
    /\ pc = "watchdog"
    /\ <<"tool", watchdog.eval>> \in watchdog.live
    /\ watchdog' = [watchdog EXCEPT !.live = @ \ {<<"tool", watchdog.eval>>}]
    /\ WatchdogFrame

\* the run_evaluation process, whose tool has ended, returns; early records
\* that it did so while the watchdog still slept
TaskExit ==
    /\ pc = "watchdog"
    /\ <<"task", watchdog.eval>> \in watchdog.live
    /\ <<"tool", watchdog.eval>> \notin watchdog.live
    /\ watchdog' = [watchdog EXCEPT !.live = @ \ {<<"task", watchdog.eval>>},
                                    !.early = @ \/ watchdog.pc = "sleep"]
    /\ WatchdogFrame

\* wait "$cmd_pid" returns; kill "$watchdog_pid"; wait "$watchdog_pid",
\* lines 615-621
WrapperCleanup ==
    /\ pc = "watchdog"
    /\ watchdog.wrapper = "wait"
    /\ <<"task", watchdog.eval>> \notin watchdog.live
    /\ watchdog' = [watchdog EXCEPT !.wrapper = "done",
                                    !.pc = IF @ = "end" THEN @ ELSE "cancelled",
                                    !.pending = <<>>]
    /\ WatchdogFrame

\* sleep "$timeout" returns, line 603: the ceiling is reached
SleepEnds ==
    /\ pc = "watchdog"
    /\ watchdog.pc = "sleep"
    /\ watchdog' = [watchdog EXCEPT !.pc = "check"]
    /\ WatchdogFrame

\* if kill -0 "$cmd_pid", line 604, and the pgrep calls of kill_tree TERM
CheckAlive ==
    /\ pc = "watchdog"
    /\ watchdog.pc = "check"
    /\ watchdog' = IF cmd_pid(watchdog.eval) \in watchdog.live
                   THEN [watchdog EXCEPT
                           !.pc = "term",
                           !.seen = watchdog.live,
                           !.pending = kill_tree_order(cmd_pid(watchdog.eval), watchdog.live)]
                   ELSE [watchdog EXCEPT !.pc = "end"]
    /\ WatchdogFrame

\* kill -TERM "$pid" 2>/dev/null || true, line 587 with signal TERM: a live
\* process ends on it, or is still there for now
SendTerm ==
    /\ pc = "watchdog"
    /\ watchdog.pc = "term"
    /\ LET pid == Head(watchdog.pending) IN
         \E dies \in BOOLEAN :
           watchdog' = [watchdog EXCEPT
                          !.signals = Append(@, <<"TERM", pid>>),
                          !.live = IF dies THEN @ \ {pid} ELSE @,
                          !.pending = Tail(@),
                          !.pc = IF Tail(watchdog.pending) = <<>> THEN "grace" ELSE "term"]
    /\ WatchdogFrame

\* sleep 5, line 607
Grace ==
    /\ pc = "watchdog"
    /\ watchdog.pc = "grace"
    /\ watchdog' = [watchdog EXCEPT !.pc = "check2", !.graced = TRUE]
    /\ WatchdogFrame

\* if kill -0 "$cmd_pid", line 609, and the pgrep calls of kill_tree KILL
CheckStillAlive ==
    /\ pc = "watchdog"
    /\ watchdog.pc = "check2"
    /\ watchdog' = IF cmd_pid(watchdog.eval) \in watchdog.live
                   THEN [watchdog EXCEPT
                           !.pc = "kill",
                           !.alive_after_grace = TRUE,
                           !.pending = kill_tree_order(cmd_pid(watchdog.eval), watchdog.live)]
                   ELSE [watchdog EXCEPT !.pc = "end"]
    /\ WatchdogFrame

\* kill -KILL "$pid" 2>/dev/null || true, line 587 with signal KILL
SendKill ==
    /\ pc = "watchdog"
    /\ watchdog.pc = "kill"
    /\ LET pid == Head(watchdog.pending) IN
         watchdog' = [watchdog EXCEPT
                        !.signals = Append(@, <<"KILL", pid>>),
                        !.live = @ \ {pid},
                        !.pending = Tail(@),
                        !.pc = IF Tail(watchdog.pending) = <<>> THEN "end" ELSE "kill"]
    /\ WatchdogFrame

NextWatchdog ==
    \/ ToolExit
    \/ TaskExit
    \/ WrapperCleanup
    \/ SleepEnds
    \/ CheckAlive
    \/ SendTerm
    \/ Grace
    \/ CheckStillAlive
    \/ SendKill

SpecWatchdog == InitWatchdog /\ [][NextWatchdog]_vars

\* ------------------------------------------- viaduct/run-evaluations.ts
\* the shell harness of test/run-evaluations.sh stands still at position p
ShellIdle(p) ==
    /\ CLEAN = 0
    /\ COMPARE = 0
    /\ USE_SKILL = 1
    /\ BACKEND = "crush"
    /\ MAX_PARALLEL = 1
    /\ evals_to_run = <<>>
    /\ pc = p
    /\ results = <<>>
    /\ Fresh
    /\ build_out = <<>>
    /\ summary = <<>>
    /\ env = [template |-> "ok", credential |-> "api_key", agent_exit |-> 0, build_output |-> "short",
              prewarm_exit |-> 0, crush_db |-> "sessions", sqlite3 |-> TRUE]
    /\ Configured
    /\ other = NoOther
    /\ verifier = NoVerifier
    /\ runner = NoRunner
    /\ watchdog = NoWatchdog

\* evaluations.json of src/viaduct: .id and .name of entry i, a name being
\* the sequence of its words
TsId(i) == IF i = 1 THEN "e1" ELSE "e2"
TsName(i) == IF i = 1 THEN <<"node", "resolver">> ELSE <<"field", "resolver">>

\* .expected_behavior of entry i, each behaviour the sequence of its words
expected_behavior(i) ==
    IF i = 1 THEN << <<"uses", "GlobalID">>, <<"calls", "internalID", "Id">>, <<"compiles">> >>
    ELSE << <<"GlobalID">>, <<"internalID">> >>

\* process.argv[2]: undefined, an id, a word of a name, or a word of neither
EvalFilters == {<<>>, <<"e1">>, <<"resolver">>, <<"zz">>}

\* the words the regular expressions of extractKeyTerms match, lines 108-114
codeTerms == {"GlobalID", "internalID", "Id"}

\* extractKeyTerms, lines 106-117: the code-like words longer than two characters
extractKeyTerms(behavior) ==
    SelectSeq(behavior, LAMBDA t : t \in codeTerms /\ t # "Id")

\* String.prototype.toLowerCase on the words of behaviours and outputs
toLowerCase(t) ==
    CASE t \in {"GlobalID", "GlobalId"} -> "globalid"
      [] t = "internalID" -> "internalid"
      [] t = "Id" -> "id"
      [] OTHER -> t

\* the texts an agent can answer with, as the set of their words
AgentOutputs == SUBSET {"GlobalId", "internalID"}

\* result.output.toLowerCase().includes(term.toLowerCase()), line 86
includes(output, term) == \E w \in output : toLowerCase(w) = toLowerCase(term)

\* keyTerms.every(...), lines 84-87: true of a behaviour without key terms
found(behavior, output) ==
    LET keyTerms == extractKeyTerms(behavior)
    IN  \A k \in 1..Len(keyTerms) : includes(output, keyTerms[k])

\* what one call of query() does: it throws or it ends, it answers with a
\* text, and its Write and Edit tools leave a file in cwd or do not
AgentRuns == [throws : BOOLEAN, output : AgentOutputs, writes : BOOLEAN]

\* the mutant of runEvaluation's grade: at least as many found as missing
majority_or_tie(nfound, nmissing) == nfound >= nmissing

\* result.passed = behaviors_found.length > behaviors_missing.length, lines 97-98
majority(nfound, nmissing) == nfound > nmissing

\* runEvaluation, lines 39-104
runEvaluation(i, agent) ==
    LET initial == [id |-> TsId(i), passed |-> FALSE, behaviors_found |-> <<>>,
                    behaviors_missing |-> <<>>, output |-> {}, error |-> <<>>]
        behaviors == expected_behavior(i)
        behaviors_found == SelectSeq(behaviors, LAMBDA b : found(b, agent.output))
        behaviors_missing == SelectSeq(behaviors, LAMBDA b : ~found(b, agent.output))
    IN  IF agent.throws
        THEN [initial EXCEPT !.error = <<"Error">>]
        ELSE [initial EXCEPT
                !.output = agent.output,
                !.behaviors_found = behaviors_found,
                !.behaviors_missing = behaviors_missing,
                !.passed = majority(Len(behaviors_found), Len(behaviors_missing))]

\* node run-evaluations.ts [filter] in a directory an earlier run may have
\* used. workDir holds who wrote Resolver.kt in .eval-workspace last: -1
\* when the file is not there, 0 for an earlier run, else the evaluation
InitTs ==
    /\ ShellIdle("ts")
    /\ viaduct = NoViaduct
    /\ installer = NoInstaller
    /\ sequential = NoSequential
    /\ \E f \in EvalFilters, w \in {-1, 0} :
         ts = [NoTs EXCEPT !.pc = "main", !.evalFilter = f, !.workDir = <<w>>]

TsFrame ==
    UNCHANGED <<cfgVars, mainVars, task, results, dirs, build_out, summary, verifier, runner,
                watchdog, viaduct, installer, sequential>>

\* main, lines 119-143: the filter, the exit on an empty selection, and
\* mkdirSync(workDir, { recursive: true }), which keeps what is there
TsMain ==
    /\ ts.pc = "main"
    /\ LET matches(i) == \/ ts.evalFilter = <<>>
                         \/ TsId(i) = ts.evalFilter[1]
                         \/ \E k \in 1..Len(TsName(i)) : TsName(i)[k] = ts.evalFilter[1]
           toRun == SelectSeq([i \in Evals |-> i], matches)
       IN  ts' = IF toRun = <<>>
                 THEN [ts EXCEPT !.pc = "exit", !.exit = 1]
                 ELSE [ts EXCEPT !.pc = "loop", !.toRun = toRun]
    /\ TsFrame

\* one turn of the loop of main, lines 145-169, with the call of
\* runEvaluation: the agent starts in workDir as it is
TsLoop ==
    /\ ts.pc = "loop"
    /\ \E agent \in AgentRuns :
         LET i == ts.toRun[Len(ts.results) + 1]
             result == runEvaluation(i, agent)
         IN  ts' = [ts EXCEPT
                      !.seen = Append(@, ts.workDir[1]),
                      !.workDir = IF agent.writes THEN <<i>> ELSE @,
                      !.threw = Append(@, agent.throws),
                      !.results = Append(@, result),
                      !.pc = IF Len(ts.results) + 1 = Len(ts.toRun) THEN "summary" ELSE "loop"]
    /\ TsFrame

\* the summary and process.exit, lines 171-189
TsSummary ==
    /\ ts.pc = "summary"
    /\ LET passed == Len(SelectSeq(ts.results, LAMBDA r : r.passed))
       IN  ts' = [ts EXCEPT !.pc = "exit",
                            !.exit = IF passed = Len(ts.results) THEN 0 ELSE 1]
    /\ TsFrame

NextTs ==
    \/ TsMain
    \/ TsLoop
    \/ TsSummary

SpecTs == InitTs /\ [][NextTs]_vars

\* ------------------------------------------- viaduct/run-evaluations.sh
\* what the commands of one call of run_evaluation do: whether the clone, the
\* checkout and the build succeed, and which patterns backend/src matches
ViaductRuns(i) ==
    [clone : BOOLEAN, checkout : BOOLEAN, build : BOOLEAN,
     src : SUBSET {VerifyPatterns(i)[k] : k \in 1..Len(VerifyPatterns(i))}]

\* run_evaluation, lines 77-170: its return status. It is called as the
\* condition of an if, where set -e does not apply
viaduct_run_evaluation(i, o) ==
    LET patterns_total == Len(VerifyPatterns(i))
        patterns_found == CountMatching(VerifyPatterns(i), o.src)
    IN  IF ~o.clone \/ ~o.checkout THEN 1
        ELSE IF o.build /\ patterns_found = patterns_total THEN 0
        ELSE 1

\* the exit status of ((var++)): 1 when the value of the expression, which
\* is var before the increment, is 0
arith_status(value) == IF value = 0 THEN 1 ELSE 0

\* set -e, line 23, at a simple or compound command of main that is no
\* condition: the shell exits with the status when it is not 0. Bash before
\* 4.1 does not apply set -e to the (( )) command
Errexit(v, status) == v.errexit_arith /\ status # 0

\* ./run-evaluations.sh [filter] under either kind of bash, with all the
\* tools check_deps asks for
InitViaduct ==
    /\ ShellIdle("viaduct")
    /\ ts = NoTs
    /\ installer = NoInstaller
    /\ sequential = NoSequential
    /\ \E f \in EvalFilters, e \in BOOLEAN :
         viaduct = [pc |-> "main", errexit_arith |-> e, filter |-> f, i |-> 0, passed |-> 0,
                    failed |-> 0, skipped |-> 0, visited |-> <<>>, summary |-> FALSE,
                    exit |-> -1]

ViaductFrame ==
    UNCHANGED <<cfgVars, mainVars, task, results, dirs, build_out, summary, verifier, runner,
                watchdog, ts, installer, sequential>>

\* main up to the loop, lines 172-192
ViaductMain ==
    /\ viaduct.pc = "main"
    /\ viaduct' = [viaduct EXCEPT !.pc = IF NumEvals = 0 THEN "summary" ELSE "loop", !.i = 1]
    /\ ViaductFrame

\* one turn of the loop, lines 192-210, with the call of run_evaluation
ViaductEntry ==
    /\ viaduct.pc = "loop"
    /\ \E o \in ViaductRuns(viaduct.i) :
         LET i == viaduct.i
             filter == viaduct.filter
             skip == /\ filter # <<>>
                     /\ TsId(i) # filter[1]
                     /\ ~\E k \in 1..Len(TsName(i)) : TsName(i)[k] = filter[1]
             status == viaduct_run_evaluation(i, o)
             counter == IF skip THEN "skipped" ELSE IF status = 0 THEN "passed" ELSE "failed"
             counted == [viaduct EXCEPT
                           ![counter] = @ + 1,
                           !.visited = Append(@, <<i, counter, IF skip THEN <<>> ELSE <<o>> >>)]
         IN  viaduct' = IF Errexit(viaduct, arith_status(viaduct[counter]))
                        THEN [counted EXCEPT !.pc = "exit", !.exit = arith_status(viaduct[counter])]
                        ELSE [counted EXCEPT !.i = i + 1,
                                             !.pc = IF i = NumEvals THEN "summary" ELSE "loop"]
    /\ ViaductFrame

\* the summary and the end of main, lines 212-230
ViaductSummary ==
    /\ viaduct.pc = "summary"
    /\ viaduct' = [viaduct EXCEPT !.summary = TRUE, !.pc = "exit",
                                  !.exit = IF viaduct.failed > 0 THEN 1 ELSE 0]
    /\ ViaductFrame

NextViaduct ==
    \/ ViaductMain
    \/ ViaductEntry
    \/ ViaductSummary

SpecViaduct == InitViaduct /\ [][NextViaduct]_vars

\* ------------------------------------------------------- bin/install.js
\* Text is the sequence of its characters; a marker is more than one
\* character long, and both markers begin alike.
DOCS_DIR == <<".viaduct-docs">>
START_MARKER == <<"<!--", "START-->">>
END_MARKER == <<"<!--", "END-->">>

\* generateIndex(), lines 72-122
generateIndex == <<"[Viaduct Docs]">>

\* String.prototype.indexOf: the least index, counted from 0, at which pat
\* begins in s, or -1
indexOf(s, pat) ==
    LET at == {k \in 0..(Len(s) - Len(pat)) : SubSeq(s, k + 1, k + Len(pat)) = pat}
    IN  IF at = {} THEN -1 ELSE CHOOSE k \in at : \A j \in at : k <= j

\* String.prototype.includes
String_includes(s, pat) == indexOf(s, pat) # -1

\* String.prototype.slice for indices that are not negative
slice(s, begin, end) == SubSeq(s, begin + 1, IF end > Len(s) THEN Len(s) ELSE end)

\* String.prototype.endsWith for a pattern of one character
endsWith(s, c) == s # <<>> /\ s[Len(s)] = c

\* a file that does not exist
ENOENT == <<"ENOENT">>

\* fs.existsSync
existsSync(files, path) == files[path] # ENOENT

\* lines 46-56: the new content of the target file
inject(content) ==
    LET wrappedIndex == START_MARKER \o <<"\n">> \o generateIndex \o <<"\n">> \o END_MARKER
    IN  IF String_includes(content, START_MARKER)
        THEN LET startIdx == indexOf(content, START_MARKER)
                 endIdx == indexOf(content, END_MARKER) + Len(END_MARKER)
             IN  slice(content, 0, startIdx) \o wrappedIndex \o slice(content, endIdx, Len(content))
        ELSE content \o (IF endsWith(content, "\n") THEN <<"\n">> ELSE <<"\n", "\n">>)
                     \o wrappedIndex \o <<"\n">>

\* lines 37-39
targetFile(files) == IF existsSync(files, "CLAUDE.md") THEN "CLAUDE.md" ELSE "AGENTS.md"

\* lines 63-68: the new content of .gitignore
update_gitignore(files) ==
    LET gitignore == IF existsSync(files, ".gitignore") THEN files[".gitignore"] ELSE <<>>
    IN  IF ~String_includes(gitignore, DOCS_DIR)
        THEN gitignore \o <<"\n", "# Viaduct docs (generated)", "\n">> \o DOCS_DIR \o <<"/", "\n">>
        ELSE files[".gitignore"]

\* the whole script, lines 15-70, on the files of cwd
install(files) ==
    LET target == targetFile(files)
        content == IF existsSync(files, target) THEN files[target] ELSE <<>>
    IN  [files EXCEPT ![target] = inject(content),
                      ![".gitignore"] = update_gitignore(files),
                      ![".viaduct-docs"] = <<"docs">>]

\* what CLAUDE.md or AGENTS.md can hold before the first run: nothing, the
\* user's text with or without a last newline, text around the block of an
\* earlier installation, and a block whose END line was lost
TargetContents ==
    {ENOENT, <<>>, <<"a">>, <<"a", "\n">>,
     <<"a", "\n">> \o START_MARKER \o <<"\n", "old", "\n">> \o END_MARKER \o <<"\n", "b", "\n">>,
     <<"a", "\n">> \o START_MARKER \o <<"\n", "old", "\n">>}

\* what .gitignore can hold before the first run
GitignoreContents ==
    {ENOENT, <<"node_modules">>, <<"node_modules", "\n">> \o DOCS_DIR \o <<"/", "\n">>,
     DOCS_DIR \o <<"-old", "/", "\n">>}

\* a directory before the first run of the installer
InitInstaller ==
    /\ ShellIdle("installer")
    /\ ts = NoTs
    /\ viaduct = NoViaduct
    /\ sequential = NoSequential
    /\ \E c \in TargetContents, a \in TargetContents, g \in GitignoreContents :
         LET files == [p \in {"CLAUDE.md", "AGENTS.md", ".gitignore", ".viaduct-docs"} |->
                         CASE p = "CLAUDE.md" -> c
                           [] p = "AGENTS.md" -> a
                           [] p = ".gitignore" -> g
                           [] OTHER -> ENOENT]
         IN  installer = [pc |-> "ready", files |-> files, first |-> files, last |-> files,
                          runs |-> 0]

\* one run of the installer
InstallerRun ==
    /\ installer.pc = "ready"
    /\ installer.runs < MaxInstallerRuns
    /\ installer' = [installer EXCEPT !.files = install(installer.files),
                                      !.last = installer.files,
                                      !.runs = @ + 1]
    /\ UNCHANGED <<cfgVars, mainVars, task, results, dirs, build_out, summary, verifier, runner,
                   watchdog, ts, viaduct, sequential>>

NextInstaller == InstallerRun

SpecInstaller == InitInstaller /\ [][NextInstaller]_vars

\* ---------------------------- test/run-evaluations.sh, sequential edition
\* A line of text is the sequence of the fields that '|' separates in it; a
\* line without '|' is one field. No field holds a '|' itself.
\* the texts extract_error_summary (lines 111-128) can print for a failed
\* build, the empty line among them
Diagnostics == {"d1", "d2", ""}

\* cut -d'|' -f1
cut_f1(line) == line[1]

\* cut -d'|' -f2-: a line without the delimiter is printed whole
cut_f2_on(line) == IF Len(line) = 1 THEN line ELSE Tail(line)

\* [[ -n "$text" ]] for a line given by its fields
nonempty(line) == line # <<"">>

RECURSIVE retry_lines(_, _)
\* the loop of lines 384-392 from the state (remaining, err_num): the
\* "retry k: text" lines it prints
retry_lines(remaining, err_num) ==
    IF ~nonempty(remaining) THEN <<>>
    ELSE LET err == cut_f1(remaining)
             rest == cut_f2_on(remaining)
             next == IF rest = <<err>> THEN <<"">> ELSE rest
         IN  IF err # ""
             THEN << <<"retry", ToString(err_num), err>> >> \o retry_lines(next, err_num + 1)
             ELSE retry_lines(next, err_num)

\* what read assigns to its last variable: the rest of the line, without the
\* delimiter that ends it when the rest is one field and that delimiter
read_rest(fields) == IF Len(fields) = 2 /\ fields[2] = "" THEN <<fields[1]>> ELSE fields

\* lines 374-405 for one line of the results file, read with IFS='|' into
\* status, eval_id, attempt_num and, with the rest of the line, errors
display(line) ==
    LET status == line[1]
        eval_id == line[2]
        attempt_num == IF Len(line) >= 3 THEN line[3] ELSE ""
        errors == IF Len(line) >= 4 THEN read_rest(SubSeq(line, 4, Len(line))) ELSE <<"">>
    IN  IF status = "PASS"
        THEN IF attempt_num = "1" THEN << <<eval_id, "one-shot">> >>
             ELSE << <<eval_id, "attempt", attempt_num>> >>
                  \o (IF nonempty(errors)
                      THEN [k \in 1..Len(retry_lines(errors, 1)) |->
                              <<eval_id>> \o retry_lines(errors, 1)[k]]
                      ELSE <<>>)
        ELSE << <<eval_id, "FAILED">> >>

RECURSIVE display_all(_)
\* the loop over the results file, lines 374-406
display_all(lines) ==
    IF lines = <<>> THEN <<>> ELSE display(Head(lines)) \o display_all(Tail(lines))

\* the locals of run_evaluation before the build loop, lines 194-196
NewSequentialRun(s, i) ==
    [s EXCEPT !.i = i, !.attempt = 1, !.build_success = 0, !.retry_errors = <<>>]

\* ./run-evaluations.sh without a filter
InitSequential ==
    /\ ShellIdle("sequential")
    /\ ts = NoTs
    /\ viaduct = NoViaduct
    /\ installer = NoInstaller
    /\ sequential = [NoSequential EXCEPT !.pc = "main"]

SequentialFrame ==
    UNCHANGED <<cfgVars, mainVars, task, results, dirs, build_out, summary, verifier, runner,
                watchdog, ts, viaduct, installer>>

\* main up to the first call of run_evaluation, lines 310-342
SequentialMain ==
    /\ sequential.pc = "main"
    /\ sequential' = [NewSequentialRun(sequential, 1) EXCEPT !.pc = "setup"]
    /\ SequentialFrame

\* run_evaluation up to the build loop, lines 130-196: the project is set
\* up, the token is there and the agent has run, or run_evaluation returns 1
SequentialSetup ==
    /\ sequential.pc = "setup"
    /\ \E ok \in BOOLEAN :
         sequential' = IF ok THEN [sequential EXCEPT !.pc = "build"]
                       ELSE [sequential EXCEPT !.pc = "record", !.returned = 1]
    /\ SequentialFrame

\* one turn of the build loop, lines 198-236
SequentialBuild ==
    /\ sequential.pc = "build"
    /\ \E passes \in BOOLEAN, error_summary \in Diagnostics :
         sequential' =
            IF passes
            THEN [sequential EXCEPT !.build_success = 1, !.pc = "grade"]
            ELSE [sequential EXCEPT
                    !.retry_errors = Append(@, error_summary),
                    !.attempt = @ + 1,
                    !.pc = IF sequential.attempt + 1 <= MAX_RETRIES THEN "build" ELSE "grade"]
    /\ SequentialFrame

\* the pattern checks and the grade, lines 238-307, with .last-result
SequentialGrade ==
    /\ sequential.pc = "grade"
    /\ \E src \in SUBSET PatternsOf(sequential.i) :
         LET i == sequential.i
             patterns_total == Len(VerifyPatterns(i))
             patterns_found == CountMatching(VerifyPatterns(i), src)
             negative_failed == CountMatching(NegativePatterns(i), src)
         IN  sequential' =
                IF GradePasses(sequential.build_success, patterns_found, patterns_total,
                               negative_failed)
                THEN [sequential EXCEPT
                        !.last_result = <<ToString(sequential.attempt)>> \o sequential.retry_errors,
                        !.returned = 0, !.pc = "record"]
                ELSE [sequential EXCEPT !.last_result = <<"FAILED">>, !.returned = 1,
                                        !.pc = "record"]
    /\ SequentialFrame

\* main after run_evaluation, lines 342-357: the line of the results file,
\* and the next manifest entry
SequentialRecord ==
    /\ sequential.pc = "record"
    /\ LET i == sequential.i
           result == sequential.last_result
           attempt_num == cut_f1(result)
           errors == cut_f2_on(result)
           line == IF sequential.returned = 0
                   THEN <<"PASS", ToString(i), attempt_num>> \o errors
                   ELSE <<"FAIL", ToString(i)>>
           recorded == [sequential EXCEPT
                          !.results_file = Append(@, line),
                          !.failed_builds = Append(@, IF sequential.returned = 0
                                                      THEN sequential.retry_errors ELSE <<>>),
                          !.failed = IF sequential.returned = 0 THEN @ ELSE @ + 1]
       IN  sequential' = IF i = NumEvals
                         THEN [recorded EXCEPT !.pc = "display"]
                         ELSE [NewSequentialRun(recorded, i + 1) EXCEPT !.pc = "setup"]
    /\ SequentialFrame

\* the summary, the detailed results and the exit, lines 359-412
SequentialDisplay ==
    /\ sequential.pc = "display"
    /\ sequential' = [sequential EXCEPT
                        !.shown = display_all(sequential.results_file),
                        !.exit = IF sequential.failed > 0 THEN 1 ELSE 0,
                        !.pc = "exit"]
    /\ SequentialFrame

NextSequential ==
    \/ SequentialMain
    \/ SequentialSetup
    \/ SequentialBuild
    \/ SequentialGrade
    \/ SequentialRecord
    \/ SequentialDisplay

SpecSequential == InitSequential /\ [][NextSequential]_vars

\* extract_error_summary applied to any build output of at most MaxLines lines
InitExtract ==
    /\ CLEAN = 0
    /\ COMPARE = 0
    /\ USE_SKILL = 1
    /\ BACKEND = "crush"
    /\ MAX_PARALLEL = 1
    /\ evals_to_run = <<>>
    /\ pc = "extract"
    /\ results = <<>>
    /\ Fresh
    /\ build_out \in SeqsUpTo(BuildLines, MaxLines)
    /\ summary = <<>>
    /\ verifier = NoVerifier
    /\ runner = NoRunner
    /\ watchdog = NoWatchdog
    /\ NoHarness
    /\ env = [template |-> "ok", credential |-> "api_key", agent_exit |-> 0, build_output |-> "short",
              prewarm_exit |-> 0, crush_db |-> "sessions", sqlite3 |-> TRUE]
    /\ Configured
    /\ other = NoOther

\* local error_summary=$(extract_error_summary "$build_output"), line 920
ExtractSummary ==
    /\ pc = "extract"
    /\ summary' = extract_error_summary(build_out)
    /\ pc' = "extracted"
    /\ UNCHANGED <<cfgVars, idx, running_pids, completed, report, exit_code, skill_exit,
                   reports, comparison, task, results, dirs, build_out, verifier, runner,
                   watchdog, harnessVars>>

NextExtract == ExtractSummary

SpecExtract == InitExtract /\ [][NextExtract]_vars

\* one pass of main over at most one evaluation, in any surroundings
InitEnv ==
    /\ CLEAN = 0
    /\ COMPARE = 0
    /\ USE_SKILL \in {0, 1}
    /\ BACKEND \in {"crush", "claude"}
    /\ MAX_PARALLEL \in {0, 1}
    /\ evals_to_run \in {s \in SubSeqs(Manifest) : Len(s) <= 1}
    /\ pc = "main"
    /\ results = <<>>
    /\ Fresh
    /\ build_out = <<>>
    /\ summary = <<>>
    /\ verifier = NoVerifier
    /\ runner = NoRunner
    /\ watchdog = NoWatchdog
    /\ NoHarness
    /\ env \in {e \in Envs : e.crush_db = "sessions" /\ e.sqlite3}
    /\ Configured
    /\ other = NoOther

SpecEnv == InitEnv /\ [][Next]_vars

\* counters an earlier run left in a tokens file
StaleTokens == <<7, 5, 1>>

\* one sequential pass of main with the skill, with or without --clean, where
\* the agent answers or fails and crush's session database is there,
\* unreadable or missing, with or without sqlite3, and with the result and
\* tokens files an earlier run left for an evaluation
InitTokens ==
    /\ CLEAN \in {0, 1}
    /\ COMPARE = 0
    /\ USE_SKILL = 1
    /\ BACKEND \in {"crush", "claude"}
    /\ MAX_PARALLEL = 1
    /\ evals_to_run \in {s \in SubSeqs(Manifest) : Len(s) <= 2}
    /\ pc = "main"
    /\ \E stale \in SUBSET {1} :
         results = [p \in {tokens_file(i) : i \in stale} \cup {result_file(i) : i \in stale} |->
                      IF \E i \in stale : p = tokens_file(i) THEN StaleTokens ELSE StaleRecord]
    /\ Fresh
    /\ build_out = <<>>
    /\ summary = <<>>
    /\ verifier = NoVerifier
    /\ runner = NoRunner
    /\ watchdog = NoWatchdog
    /\ NoHarness
    /\ env \in {e \in Envs : /\ e.template = "ok"
                              /\ e.credential = "api_key"
                              /\ e.build_output = "short"
                              /\ e.prewarm_exit = 0}
    /\ Configured
    /\ other = NoOther

SpecTokens == InitTokens /\ [][Next]_vars

\* the arguments the case statement of lines 497-539 tells apart
ArgPool ==
    { <<"--no-skill">>, <<"--skill">>, <<"--parallel=", 2>>, <<"--sequential">>,
      <<"--backend=", "claude">>, <<"--backend=", "crush">>, <<"--backend=", "other">>,
      <<"--crush">>, <<"--claude">>,
      <<"--clean">>, <<"--compare">>, <<"e1">>, <<"e2">> }

\* the default settings, lines 477-485, for any command line of at most
\* MaxArgs arguments and any environment
InitConfig ==
    /\ args \in SeqsUpTo(ArgPool, MaxArgs)
    /\ argi = 1
    /\ environ \in [BACKEND : {<<>>, <<"claude">>, <<"crush">>}, MAX_PARALLEL : {<<>>, <<3>>}]
    /\ USE_SKILL = 1
    /\ CLEAN = 0
    /\ COMPARE = 0
    /\ FILTER = <<>>
    /\ BACKEND = IF environ.BACKEND = <<>> THEN "crush" ELSE environ.BACKEND[1]
    \* an unset MAX_PARALLEL is the empty string, which the shell's
    \* arithmetic reads as 0
    /\ MAX_PARALLEL = IF environ.MAX_PARALLEL = <<>> THEN 0 ELSE environ.MAX_PARALLEL[1]
    /\ EXPLICIT_PARALLEL = <<>>
    /\ evals_to_run = <<>>
    /\ pc = "parse"
    /\ results = <<>>
    /\ Fresh
    /\ build_out = <<>>
    /\ summary = <<>>
    /\ verifier = NoVerifier
    /\ runner = NoRunner
    /\ watchdog = NoWatchdog
    /\ NoHarness
    /\ env = [template |-> "ok", credential |-> "api_key", agent_exit |-> 0, build_output |-> "short",
              prewarm_exit |-> 0, crush_db |-> "sessions", sqlite3 |-> TRUE]
    /\ other = NoOther

\* one turn of the argument loop, lines 496-540: case $1 in ... shift
ParseArg ==
    /\ pc = "parse"
    /\ argi <= Len(args)
    /\ LET arg == args[argi]
           flag == arg[1]
       IN  /\ USE_SKILL' = IF flag = "--no-skill" THEN 0 ELSE IF flag = "--skill" THEN 1 ELSE USE_SKILL
           /\ EXPLICIT_PARALLEL' = IF flag = "--parallel=" THEN <<arg[2]>>
                                   ELSE IF flag = "--sequential" THEN <<1>>
                                   ELSE EXPLICIT_PARALLEL
           /\ BACKEND' = IF flag = "--backend=" THEN arg[2]
                         ELSE IF flag = "--crush" THEN "crush"
                         ELSE IF flag = "--claude" THEN "claude"
                         ELSE BACKEND
           /\ CLEAN' = IF flag = "--clean" THEN 1 ELSE CLEAN
           /\ COMPARE' = IF flag = "--compare" THEN 1 ELSE COMPARE
           /\ FILTER' = IF flag \in {"--no-skill", "--skill", "--parallel=", "--sequential",
                                     "--backend=", "--crush", "--claude", "--clean", "--compare"}
                        THEN FILTER ELSE arg
    /\ argi' = argi + 1
    /\ UNCHANGED <<args, environ, MAX_PARALLEL, evals_to_run, env, other, mainVars, task,
                   results, dirs, extractVars>>

DefaultParallelSwapped(backend) == IF backend = "claude" THEN 10 ELSE 4

\* MAX_PARALLEL=10 for crush, MAX_PARALLEL=4 otherwise, lines 547-551
DefaultParallel(backend) == IF backend = "crush" THEN 10 ELSE 4

ResolveParallelEnvFirst ==
    /\ pc = "parse"
    /\ argi > Len(args)
    /\ MAX_PARALLEL' = IF environ.MAX_PARALLEL # <<>> THEN MAX_PARALLEL
                       ELSE IF EXPLICIT_PARALLEL # <<>> THEN EXPLICIT_PARALLEL[1]
                       ELSE DefaultParallel(BACKEND)
    /\ pc' = "configured"
    /\ UNCHANGED <<COMPARE, USE_SKILL, BACKEND, evals_to_run, env, CLEAN, cliVars, other,
                   idx, running_pids, completed, report, exit_code, skill_exit, reports, comparison,
                   task, results, dirs, extractVars>>

\* after the loop, lines 542-551: set MAX_PARALLEL
ResolveParallel ==
    /\ pc = "parse"
    /\ argi > Len(args)
    /\ MAX_PARALLEL' = IF EXPLICIT_PARALLEL # <<>> THEN EXPLICIT_PARALLEL[1]
                       ELSE IF environ.MAX_PARALLEL # <<>> THEN MAX_PARALLEL
                       ELSE DefaultParallel(BACKEND)
    /\ pc' = "configured"
    /\ UNCHANGED <<COMPARE, USE_SKILL, BACKEND, evals_to_run, env, CLEAN, cliVars, other,
                   idx, running_pids, completed, report, exit_code, skill_exit, reports, comparison,
                   task, results, dirs, extractVars>>

NextConfig ==
    \/ ParseArg
    \/ ResolveParallel

SpecConfig == InitConfig /\ [][NextConfig]_vars

\* ---- two invocations at the same time
\* the paths of run_evaluation, lines 854-862 and 1008, and of prewarm_gradle,
\* line 629, for an invocation with the settings use_skill and backend
suffix_of(use_skill) == IF use_skill = 0 THEN <<"-noskill">> ELSE <<>>

backend_suffix_of(backend) == IF backend = "crush" THEN <<"-crush">> ELSE <<>>

work_dir_of(use_skill, backend, i) ==
    WORK_BASE \o <<"-">> \o EvalId(i) \o suffix_of(use_skill) \o backend_suffix_of(backend)

result_file_of(use_skill, backend, i) ==
    OUTPUT_DIR \o EvalId(i) \o suffix_of(use_skill) \o backend_suffix_of(backend) \o <<".result">>

workspace_dir_of(use_skill, i) == OUTPUT_DIR \o EvalId(i) \o suffix_of(use_skill) \o <<"-workspace">>

\* rm -f "$OUTPUT_DIR"/*$suffix$backend_suffix.result, lines 1083-1086
ClearGlobOf(use_skill, backend, p) ==
    InOutputDir(p, suffix_of(use_skill) \o backend_suffix_of(backend) \o <<".result">>)

\* our invocation of any mode and backend over at most one evaluation, and
\* a second invocation of another mode or backend that is about to call main
InitTwo ==
    /\ CLEAN = 0
    /\ COMPARE = 0
    /\ USE_SKILL \in {0, 1}
    /\ BACKEND \in {"crush", "claude"}
    /\ MAX_PARALLEL \in {0, 1}
    /\ evals_to_run \in {s \in SubSeqs(Manifest) : Len(s) <= 1}
    /\ pc = "main"
    /\ results = <<>>
    /\ Fresh
    /\ build_out = <<>>
    /\ summary = <<>>
    /\ verifier = NoVerifier
    /\ runner = NoRunner
    /\ watchdog = NoWatchdog
    /\ NoHarness
    /\ env = [template |-> "ok", credential |-> "api_key", agent_exit |-> 0, build_output |-> "short",
              prewarm_exit |-> 0, crush_db |-> "sessions", sqlite3 |-> TRUE]
    /\ Configured
    /\ other \in {o \in [USE_SKILL : {0, 1}, BACKEND : {"crush", "claude"}, pc : {"main"}] :
                     <<o.USE_SKILL, o.BACKEND>> # <<USE_SKILL, BACKEND>>}

\* main of the second invocation up to its start loop, lines 1025-1091: it
\* clears its old result files
OtherBegin ==
    /\ other.pc = "main"
    /\ results' = [p \in {q \in DOMAIN results : ~ClearGlobOf(other.USE_SKILL, other.BACKEND, q)}
                     |-> results[p]]
    /\ other' = [other EXCEPT !.pc = "running"]
    /\ UNCHANGED <<COMPARE, USE_SKILL, BACKEND, MAX_PARALLEL, evals_to_run, env, CLEAN, cliVars,
                   mainVars, task, dirs, extractVars>>

\* one run_evaluation of the second invocation, lines 844-1017, seen from
\* outside: a one-shot pass, or a failure whose workspace it archives
OtherEval(i) ==
    /\ other.pc = "running"
    /\ \E passed \in BOOLEAN :
         /\ results' = WriteFile(results, result_file_of(other.USE_SKILL, other.BACKEND, i),
                           IF passed
                           THEN << <<"PASS">>, EvalId(i), <<"1">>, <<>>, TimingInfo >>
                           ELSE << <<"FAIL">>, EvalId(i), <<"1">>, <<"missing_patterns">>,
                                   <<>>, TimingInfo >>)
         /\ dirs' = IF passed THEN dirs ELSE dirs \cup {workspace_dir_of(other.USE_SKILL, i)}
    /\ UNCHANGED <<cfgVars, mainVars, task, extractVars>>

\* the second invocation exits, line 1459
OtherEnd ==
    /\ other.pc = "running"
    /\ other' = [other EXCEPT !.pc = "done"]
    /\ UNCHANGED <<COMPARE, USE_SKILL, BACKEND, MAX_PARALLEL, evals_to_run, env, CLEAN, cliVars,
                   mainVars, task, results, dirs, extractVars>>

NextTwo ==
    \/ Next
    \/ OtherBegin
    \/ \E i \in Evals : OtherEval(i)
    \/ OtherEnd

SpecTwo == InitTwo /\ [][NextTwo]_vars

TypeOK ==
    /\ pc \in {"compare", "main", "sched", "wait", "report", "exit", "extract", "extracted",
               "parse", "configured", "verify", "runner", "prewarm", "watchdog", "ts",
               "viaduct", "installer", "sequential"}
    /\ \A i \in Evals : task[i].attempt \in 0..(MAX_RETRIES + 1)

\* =================================================================== claims
\* helpers of the claims' statements

\* evaluation i is selected
Selected(i) == \E k \in 1..Len(evals_to_run) : evals_to_run[k] = i

\* the elements of a sequence
Range(f) == {f[k] : k \in 1..Len(f)}

\* the run_evaluation process of i has graded and still holds its local state
Graded(i) == task[i].phase = "written"

\* some build of the run of i succeeded
SomeBuildPassed(i) == \E k \in 1..Len(task[i].build_log) : task[i].build_log[k]

RequiredFound(i) == \A k \in 1..Len(VerifyPatterns(i)) : VerifyPatterns(i)[k] \in task[i].src

ForbiddenFound(i) == \E k \in 1..Len(NegativePatterns(i)) : NegativePatterns(i)[k] \in task[i].src

\* the record in the result file of i
Recorded(i) == results[result_file(i)]

HasResult(i) == result_file(i) \in DOMAIN results

\* how a report classifies evaluation i
InOneShot(rep, i) == \E k \in 1..Len(rep.success_oneshot) : rep.success_oneshot[k] = i

InRetry(rep, i) == \E k \in 1..Len(rep.success_retry) : rep.success_retry[k][1] = i

InFailures(rep, i) == \E k \in 1..Len(rep.failure_list) : rep.failure_list[k][1] = i

AsTimeout(rep, i) ==
    \E k \in 1..Len(rep.failure_list) :
        rep.failure_list[k][1] = i /\ rep.failure_list[k][2] = <<"timeout">>

\* how many entries of the three lists of a report are about i
Mentions(rep, i) ==
    Cardinality({k \in 1..Len(rep.success_oneshot) : rep.success_oneshot[k] = i})
    + Cardinality({k \in 1..Len(rep.success_retry) : rep.success_retry[k][1] = i})
    + Cardinality({k \in 1..Len(rep.failure_list) : rep.failure_list[k][1] = i})

\* main has collected the results of the current pass
Collected == pc \in {"report", "exit"}

\* ---- C1
\* C1: a graded evaluation's result file says PASS if and only if one of its
\* builds succeeded, every required pattern is in the workspace sources and
\* no forbidden pattern is; otherwise it says FAIL.
C1_PassIffAllThree ==
    \A i \in Evals : Graded(i) =>
        /\ HasResult(i)
        /\ Recorded(i)[1] \in {<<"PASS">>, <<"FAIL">>}
        /\ Recorded(i)[1] = <<"PASS">>
             <=> (SomeBuildPassed(i) /\ RequiredFound(i) /\ ~ForbiddenFound(i))

\* a build that succeeded, exactly one of two required patterns missing: FAIL
C1_Witness ==
    \E i \in Evals :
        /\ Graded(i)
        /\ SomeBuildPassed(i)
        /\ Len(VerifyPatterns(i)) = 2
        /\ Cardinality(Range(VerifyPatterns(i)) \ task[i].src) = 1
        /\ Recorded(i)[1] = <<"FAIL">>

\* ---- C2
\* C2: a run never makes more than MAX_RETRIES builds; a graded run all of
\* whose builds failed made exactly MAX_RETRIES builds, recorded the
\* diagnostics "Attempt 1" .. "Attempt MAX_RETRIES" and wrote a FAIL record
\* whose reason contains build_failed; a graded run with fewer builds ended
\* on a build that succeeded.
C2_BoundedRetries ==
    \A i \in Evals :
        LET t == task[i] IN
        /\ Len(t.build_log) <= MAX_RETRIES
        /\ (Graded(i) /\ ~SomeBuildPassed(i)) =>
              /\ Len(t.build_log) = MAX_RETRIES
              /\ Len(t.attempt_lines) = MAX_RETRIES
              /\ \A k \in 1..Len(t.attempt_lines) : t.attempt_lines[k][1] = k
              /\ HasResult(i)
              /\ Recorded(i)[1] = <<"FAIL">>
              /\ "build_failed" \in Range(Recorded(i)[4])
        /\ (Graded(i) /\ Len(t.build_log) < MAX_RETRIES) =>
              /\ t.build_log # <<>>
              /\ t.build_log[Len(t.build_log)]
              /\ \A k \in 1..(Len(t.build_log) - 1) : ~t.build_log[k]

C2_Witness ==
    \E i \in Evals :
        /\ Graded(i)
        /\ ~SomeBuildPassed(i)
        /\ Len(task[i].build_log) = MAX_RETRIES
        /\ "build_failed" \in Range(Recorded(i)[4])

\* ---- C3
\* C3: once main has collected the results, every selected evaluation whose
\* task the watchdog ended - whatever the task had done by then - is
\* reported as a timeout, and neither as a pass nor with a build failure.
C3_TimeoutAlwaysRecorded ==
    Collected => \A i \in Evals : (Selected(i) /\ task[i].phase = "killed") =>
        /\ AsTimeout(report, i)
        /\ ~InOneShot(report, i)
        /\ ~InRetry(report, i)

\* ---- C4
\* the paths one evaluation task creates, writes or deletes
PathsOf(i) ==
    {work_dir(i), agent_output(i), build_output(i), errors_file(i), result_file(i),
     tokens_file(i), workspace_dir(i)}

\* C4: two evaluation tasks that are alive at the same time share no path:
\* workspace, result, transcript, build output, errors, tokens, archive.
C4_DisjointPaths ==
    \A i, j \in Evals : (i # j /\ Alive(i) /\ Alive(j)) => PathsOf(i) \cap PathsOf(j) = {}

C4_Witness ==
    \E i, j \in Evals :
        /\ i # j
        /\ Alive(i)
        /\ Alive(j)
        /\ work_dir(i) \in dirs
        /\ work_dir(j) \in dirs

\* ---- C5
\* C5: at most MAX_PARALLEL evaluation tasks are alive at any moment.
C5_BoundedParallelism == Cardinality({i \in Evals : Alive(i)}) <= MAX_PARALLEL

\* the pool is full and main still has an evaluation to start
C5_Witness ==
    /\ pc = "sched"
    /\ MAX_PARALLEL >= 1
    /\ MAX_PARALLEL < Len(evals_to_run)
    /\ Cardinality({i \in Evals : Alive(i)}) = MAX_PARALLEL

\* ---- C6
\* C6: when main collects the results no evaluation task is alive and every
\* selected evaluation was started; the report then lists every selected
\* evaluation exactly once - one-shot iff its record says PASS with attempt
\* 1, with retries iff PASS with another attempt, failure otherwise, as a
\* timeout when it has no record - and its counters are the lengths of its
\* lists: passed + failed = total_run and one_shot <= passed.
C6_ReportPartition ==
    /\ ((pc = "wait" /\ running_pids = <<>>) \/ Collected) =>
          \A i \in Evals : /\ ~Alive(i)
                           /\ Selected(i) => Terminated(i)
    /\ Collected =>
          /\ \A i \in Evals : Mentions(report, i) = IF Selected(i) THEN 1 ELSE 0
          /\ \A i \in Evals : Selected(i) =>
                /\ InOneShot(report, i)
                     <=> (HasResult(i) /\ Recorded(i)[1] = <<"PASS">> /\ Recorded(i)[3] = <<"1">>)
                /\ InRetry(report, i)
                     <=> (HasResult(i) /\ Recorded(i)[1] = <<"PASS">> /\ Recorded(i)[3] # <<"1">>)
                /\ AsTimeout(report, i) <=> ~HasResult(i)
          /\ report.total_run = Len(evals_to_run)
          /\ report.one_shot = Len(report.success_oneshot)
          /\ report.passed = Len(report.success_oneshot) + Len(report.success_retry)
          /\ report.failed = Len(report.failure_list)
          /\ report.passed + report.failed = report.total_run
          /\ report.one_shot <= report.passed

\* a report with a one-shot pass or a pass with retries, and a timeout
C6_Witness ==
    /\ Collected
    /\ report.passed >= 1
    /\ \E i \in Evals : AsTimeout(report, i)
    /\ report.total_run = NumEvals

\* ---- C7
\* a report lists every selected evaluation as a pass
AllPass(rep) == \A i \in Evals : Selected(i) => (InOneShot(rep, i) \/ InRetry(rep, i))

C8_NoRetryAfterFirstSuccess ==
    \A i \in Evals :
        LET t == task[i] IN
        (t.build_log # <<>> /\ t.build_log[1]) =>
            /\ Len(t.build_log) = 1
            /\ t.repairs = 0
            /\ (Graded(i) /\ (~RequiredFound(i) \/ ForbiddenFound(i))) =>
                  /\ Recorded(i)[1] = <<"FAIL">>
                  /\ Recorded(i)[3] = <<"1">>
                  /\ Recorded(i)[4] =
                        (IF ~RequiredFound(i) THEN <<"missing_patterns">> ELSE <<>>)
                        \o (IF ~RequiredFound(i) /\ ForbiddenFound(i) THEN <<",">> ELSE <<>>)
                        \o (IF ForbiddenFound(i) THEN <<"forbidden_patterns">> ELSE <<>>)

\* first build succeeded, a pattern is missing and a forbidden one is there
C8_Witness ==
    \E i \in Evals :
        /\ Graded(i)
        /\ task[i].build_log = <<TRUE>>
        /\ ~RequiredFound(i)
        /\ ForbiddenFound(i)
        /\ Recorded(i)[4] = <<"missing_patterns", ",", "forbidden_patterns">>

\* ---- C9
\* the signatures extract_error_summary tests, in its order
Signatures == <<"Unresolved reference", "cannot find symbol", "not found", "expected", "error:">>

\* line n of the build output contains the text sig
HasText(n, sig) == \E k \in 1..Len(build_out[n]) : build_out[n][k] \in Occurs(sig)

SigOccurs(sig) == \E n \in 1..Len(build_out) : HasText(n, sig)

\* the texts whose first line is taken when signature number k is the first that occurs
TakenFor(k) == IF k = 3 THEN {"not found", "Not found"} ELSE {Signatures[k]}

\* line n is the first line of the build output that contains one of texts
FirstLineWith(n, texts) ==
    /\ \E x \in texts : HasText(n, x)
    /\ \A m \in 1..(n - 1) : \A x \in texts : ~HasText(m, x)

\* sum is what is left of line l after its last ": "
AfterLastColon(sum, l) ==
    /\ \A k \in 1..Len(sum) : sum[k] \notin Occurs(": ")
    /\ \/ sum = l
       \/ \E c \in 1..Len(l) : l[c] \in Occurs(": ") /\ sum = SubSeq(l, c + 1, Len(l))

\* C9: the summary comes from the first signature, in the order Unresolved
\* reference, cannot find symbol, not found, expected, error:, that occurs in
\* the build output: it is the end of the first line with that signature
\* (for 'not found': the first line with 'not found' or 'Not found'); when an
\* 'Unresolved reference' line and an 'error:' line both occur, in any
\* order, it is the first 'Unresolved reference' line after its last ": ".
C9_SignaturePriority ==
    pc = "extracted" =>
        /\ \A k \in 1..Len(Signatures) :
              (SigOccurs(Signatures[k]) /\ \A j \in 1..(k - 1) : ~SigOccurs(Signatures[j])) =>
                  \E n \in 1..Len(build_out) :
                      /\ FirstLineWith(n, TakenFor(k))
                      /\ \E c \in 0..Len(build_out[n]) :
                            summary = SubSeq(build_out[n], c + 1, Len(build_out[n]))
                      /\ k \in {2, 4} => summary = build_out[n]
        /\ (SigOccurs("Unresolved reference") /\ SigOccurs("error:")) =>
              \E n \in 1..Len(build_out) :
                  /\ FirstLineWith(n, {"Unresolved reference"})
                  /\ AfterLastColon(summary, build_out[n])

\* an 'error:' line before the 'Unresolved reference' line
C9_Witness ==
    /\ pc = "extracted"
    /\ \E m, n \in 1..Len(build_out) :
          /\ m < n
          /\ HasText(m, "error:")
          /\ ~HasText(m, "Unresolved reference")
          /\ FirstLineWith(n, {"Unresolved reference"})
    /\ summary = <<"w">>

\* ---- C10
NoSignature == \A k \in 1..Len(Signatures) : ~SigOccurs(Signatures[k])

\* C10 as stated: with no signature in the build output the summary is its
\* last non-empty line.
C10_LastNonEmptyLine ==
    (pc = "extracted" /\ NoSignature) =>
        \/ /\ \A n \in 1..Len(build_out) : build_out[n] = <<>>
           /\ summary = <<>>
        \/ \E n \in 1..Len(build_out) :
              /\ build_out[n] # <<>>
              /\ \A m \in (n + 1)..Len(build_out) : build_out[m] = <<>>
              /\ summary = build_out[n]

\* C10 amended: with no signature in the build output the summary is its
\* third line from the end, empty or not - its first line when it has fewer
\* than three lines, the empty text when it has none.
C10_ThirdLineFromEnd ==
    (pc = "extracted" /\ NoSignature) =>
        summary = IF Len(build_out) = 0 THEN <<>>
                  ELSE IF Len(build_out) < 3 THEN build_out[1]
                  ELSE build_out[Len(build_out) - 2]

\* four lines without a signature, the third from the end unlike the others
C10_Witness ==
    /\ pc = "extracted"
    /\ NoSignature
    /\ Len(build_out) = 4
    /\ build_out[4] # <<>>
    /\ summary = build_out[2]
    /\ summary # build_out[1]
    /\ summary # build_out[4]

\* ---- C11
\* the run_evaluation process of i has returned
Returned(i) == task[i].phase = "done"

SetupFailedRecord(i) == << <<"FAIL">>, EvalId(i), <<"0">>, <<"SETUP_FAILED">> >>

AuthFailedRecord(i) == << <<"FAIL">>, EvalId(i), <<"0">>, <<"AUTH_FAILED">> >>

\* C11: when the copy of the template fails, wholly or in part, the
\* evaluation never reaches the agent or a build: once past setup its task
\* has returned and the result file holds FAIL, attempt 0, SETUP_FAILED; and
\* every SETUP_FAILED record is of a task that called no agent and ran no
\* build.
C11_SetupFailureShortCircuits ==
    \A i \in Evals :
        /\ (env.template # "ok" /\ task[i].phase \notin {"idle", "setup", "killed"}) =>
              /\ Returned(i)
              /\ HasResult(i)
              /\ Recorded(i) = SetupFailedRecord(i)
        /\ (HasResult(i) /\ Recorded(i) = SetupFailedRecord(i)) =>
              /\ task[i].transcript = <<>>
              /\ task[i].build_log = <<>>

\* ---- C12
\* C12: when no credential can be obtained, no evaluation ever runs a build,
\* whatever the backend: a task past its initial agent call has returned,
\* with AUTH_FAILED in its result file (or SETUP_FAILED from before).
C12_NoCredentialAborts ==
    env.credential = "no_token" =>
        \A i \in Evals :
            /\ task[i].build_log = <<>>
            /\ task[i].phase \notin {"idle", "setup", "agent", "killed"} =>
                  /\ Returned(i)
                  /\ HasResult(i)
                  /\ Recorded(i) \in {AuthFailedRecord(i), SetupFailedRecord(i)}

\* ---- C20
\* C20: with a credential at hand and an agent CLI that exits with 1, every
\* agent call of a task - the initial one and each repair call - appends the
\* CLI's output to the transcript and is followed by a build, unless the
\* watchdog ends the task; no task is aborted with AUTH_FAILED.
C20_AgentFailureProceeds ==
    [][(env.agent_exit = 1 /\ env.credential # "no_token") =>
         \A i \in Evals :
            (task[i].phase \in {"agent", "repair"} /\ task'[i] # task[i]
             /\ task'[i].phase # "killed") =>
                /\ task'[i].phase = "build"
                /\ task'[i].transcript = Append(task[i].transcript, "agent error output")
                /\ results' = results]_vars

\* the agent CLI failed in the initial call and in a repair call, and the
\* task went on to its second build
C20_Witness ==
    \E i \in Evals :
        /\ env.agent_exit = 1
        /\ task[i].phase = "build"
        /\ task[i].attempt = 2
        /\ task[i].transcript = <<"agent error output", "agent error output">>

\* ---- C13
\* C13: in the collected report, the entry of every evaluation that passed
\* with retries shows all the diagnostics of its failed builds, in attempt
\* order: one per failed build, as its result record holds them between the
\* attempt number and the timing.
C13_AllRetryDiagnosticsShown ==
    Collected =>
        \A k \in 1..Len(report.success_retry) :
            LET entry == report.success_retry[k]
                rec == Recorded(entry[1])
            IN  /\ HasResult(entry[1])
                /\ <<entry[3]>> = SubSeq(rec, 4, Len(rec) - 1)
                /\ \E n \in 1..MAX_RETRIES :
                      /\ entry[2] = <<ToString(n + 1)>>
                      /\ Len(rec) = n + 4

\* ---- C14
\* C14: the attempt number in the record a graded run wrote is the number
\* of builds the run made, and lies between 1 and MAX_RETRIES.
C14_AttemptIsBuildCount ==
    \A i \in Evals : Graded(i) =>
        /\ Recorded(i)[3] = <<ToString(Len(task[i].build_log))>>
        /\ Len(task[i].build_log) \in 1..MAX_RETRIES
        /\ \E n \in 1..MAX_RETRIES : Recorded(i)[3] = <<ToString(n)>>

\* ---- C15
\* C15: when a run_evaluation process has returned with a record in its
\* result file, its temporary workspace directory does not exist.
C15_WorkspaceRemoved ==
    \A i \in Evals : (Returned(i) /\ HasResult(i)) => work_dir(i) \notin dirs

\* ---- C17
\* C17: a step in which the watchdog ends a task ends no other task, and
\* leaves the state of every other task, the result files and the
\* directories as they were.
C17_TimeoutHitsOneTask ==
    [][\A i \in Evals :
          (task[i].phase # "killed" /\ task'[i].phase = "killed") =>
              /\ \A j \in Evals \ {i} : task'[j] = task[j]
              /\ results' = results
              /\ dirs' = dirs]_vars

\* one task was ended by the watchdog while another was running, and that
\* other has since written a PASS record
C17_Witness ==
    \E i, j \in Evals :
        /\ i # j
        /\ task[i].phase = "killed"
        /\ ~task[i].wrote
        /\ Graded(j)
        /\ Recorded(j)[1] = <<"PASS">>
        /\ MAX_PARALLEL >= 2

\* ---- C18
\* how run_compare labels the way a report of main lists evaluation i
ReportLabel(rep, i) ==
    IF InOneShot(rep, i) THEN <<"one-shot">>
    ELSE IF InRetry(rep, i)
    THEN LET entry == CHOOSE e \in Range(rep.success_retry) : e[1] = i IN <<"attempt">> \o entry[2]
    ELSE LET entry == CHOOSE e \in Range(rep.failure_list) : e[1] = i
         IN  IF entry[2] = <<"timeout">> THEN <<"TIMEOUT">> ELSE <<"FAIL">> \o entry[2]

\* C18: when a --compare run exits, whatever its other flags, the
\* comparison report shows for every selected evaluation, under With Skill,
\* the result the with-skill pass reported and, under Without Skill, the
\* result the baseline pass reported, and the skill improvement is the
\* one-shot rate of the first pass minus that of the second.
C18_ComparisonShowsBothPasses ==
    (pc = "exit" /\ COMPARE = 1) =>
        /\ \A i \in Evals : Selected(i) =>
              /\ comparison.skill[i] = ReportLabel(reports[1], i)
              /\ comparison.noskill[i] = ReportLabel(reports[2], i)
        /\ evals_to_run # <<>> =>
              comparison.delta = OneShotPct(reports[1].one_shot, Len(evals_to_run))
                                 - OneShotPct(reports[2].one_shot, Len(evals_to_run))

\* ---- C19
\* no argument of the command line names a backend
NoBackendFlag == \A k \in 1..Len(args) : args[k][1] \notin {"--backend=", "--crush", "--claude"}

NoParallelGiven == EXPLICIT_PARALLEL = <<>> /\ environ.MAX_PARALLEL = <<>>

PathsOfInvocation(use_skill, backend) ==
    {prewarm_dir}
    \cup {work_dir_of(use_skill, backend, i) : i \in Evals}
    \cup {result_file_of(use_skill, backend, i) : i \in Evals}
    \cup {workspace_dir_of(use_skill, i) : i \in Evals}

\* C16: while a second invocation of another backend or skill mode runs,
\* no path that one invocation writes or deletes is a path of the other,
\* the second invocation's glob removes no result file of ours, and our
\* report lists no evaluation as a timeout whose task wrote its result.
C16_InvocationsDoNotConflict ==
    other.pc # "none" =>
        /\ PathsOfInvocation(USE_SKILL, BACKEND)
             \cap PathsOfInvocation(other.USE_SKILL, other.BACKEND) = {}
        /\ \A i \in Evals : ~ClearGlobOf(other.USE_SKILL, other.BACKEND, result_file(i))
        /\ Collected => \A i \in Evals : (Selected(i) /\ task[i].wrote) => ~AsTimeout(report, i)

\* ---- C24
\* the positions of the arguments that give a parallelism
ParallelFlags == {k \in 1..Len(args) : args[k][1] \in {"--parallel=", "--sequential"}}

\* the parallelism the k-th argument gives
ParallelOf(k) == IF args[k][1] = "--sequential" THEN 1 ELSE args[k][2]

\* C24: once the settings are resolved, MAX_PARALLEL is the value of the
\* last --parallel=N or --sequential argument if there is one, wherever it
\* stands among the other arguments; otherwise the MAX_PARALLEL of the
\* environment if set; otherwise 10 for the crush backend and 4 for any
\* other backend.
C24_EffectiveParallelism ==
    pc = "configured" =>
        MAX_PARALLEL =
            IF ParallelFlags # {}
            THEN ParallelOf(CHOOSE k \in ParallelFlags : \A j \in ParallelFlags : j <= k)
            ELSE IF environ.MAX_PARALLEL # <<>> THEN environ.MAX_PARALLEL[1]
            ELSE IF BACKEND = "crush" THEN 10 ELSE 4

\* two parallelism flags with different values, against a MAX_PARALLEL of
\* the environment: the last flag wins
C24_Witness ==
    /\ pc = "configured"
    /\ Len(args) >= 2
    /\ args[1][1] = "--sequential"
    /\ args[2][1] = "--parallel="
    /\ environ.MAX_PARALLEL # <<>>
    /\ MAX_PARALLEL = args[2][2]
    /\ MAX_PARALLEL # environ.MAX_PARALLEL[1]

\* ---- C30
\* the result file of i holds the record of a graded run
GradedRecord(i) ==
    /\ HasResult(i)
    /\ Recorded(i) \notin {SetupFailedRecord(i), AuthFailedRecord(i)}

C29_EventuallyAggregates == <>Collected

\* ---- C26
\* the builds of the run of i that failed at an attempt before the last
RepairedBuilds(i) == {k \in 1..Len(task[i].build_log) : ~task[i].build_log[k] /\ k < MAX_RETRIES}

\* the calls of run_agent the run of i has made
AgentCalls(i) == (IF task[i].attempt >= 1 THEN 1 ELSE 0) + task[i].repairs

PhaseRank(p) ==
    CASE p = "idle"    -> 0
      [] p = "setup"   -> 1
      [] p = "agent"   -> 2
      [] p = "build"   -> 3
      [] p = "repair"  -> 3
      [] p = "verify"  -> 4
      [] p = "written" -> 5
      [] OTHER         -> 6

\* C27: a run_evaluation process is at one step at a time, and every change
\* of its step is its start by main, its end by the watchdog, or a move
\* forward in the order provision, agent, loop, verification, result: the
\* agent is called only after the provision, the loop is entered only from
\* the agent call, pattern verification only from the agent call or the
\* loop, and the result of a graded run is written only from pattern
\* verification; so pattern verification runs once, after the loop.
C27_StepsInOrder ==
    [][\A i \in Evals :
          LET p == task[i].phase
              q == task'[i].phase
          IN  q # p =>
                \/ q \in {"idle", "setup"} /\ p \in {"idle", "done", "killed"}
                \/ q = "killed"
                \/ /\ PhaseRank(q) > PhaseRank(p) \/ (PhaseRank(q) = 3 /\ PhaseRank(p) = 3)
                   /\ q = "agent" => p = "setup"
                   /\ PhaseRank(q) = 3 => p \in {"agent", "build", "repair"}
                   /\ q = "verify" => p \in {"agent", "build", "repair"}
                   /\ q = "written" => p = "verify"]_vars

\* pattern verification is about to run after a loop in which no build
\* succeeded
C27_Witness ==
    \E i \in Evals :
        /\ task[i].phase = "verify"
        /\ task[i].build_success = 0
        /\ task[i].build_log = [k \in 1..MAX_RETRIES |-> FALSE]
        /\ ~HasResult(i)

\* ---- C21
\* C21: the pattern checks leave every file of the workspace as it was, and
\* every run of them against that workspace gives the missing-pattern and
\* forbidden-pattern lists the first run gave.
C21_VerificationIsIdempotent ==
    [][verifier'.runs # verifier.runs =>
          /\ \A p \in DOMAIN verifier.files :
                 Below(work_dir(verifier.eval), p) => verifier'.files[p] = verifier.files[p]
          /\ \A k \in 1..Len(verifier'.runs) : verifier'.runs[k] = verifier'.runs[1]]_vars

\* the checks ran twice on a workspace with a missing and a forbidden
\* pattern, and the errors file names both
C21_Witness ==
    /\ Len(verifier.runs) = 2
    /\ verifier.runs[2].missing_patterns # <<>>
    /\ verifier.runs[2].found_negative # <<>>
    /\ {"Missing patterns:", "Forbidden patterns found:"}
          \subseteq verifier.files[errors_file(verifier.eval)]

\* ---- C22
\* C22: runEvaluation always returns a result; the result has passed = true
\* exactly when its buildSuccess is true, its patternsMissing is empty and its
\* error is null; and when an exception was thrown by the clone, the checkout
\* or the skill copy, the result has passed = false, an error and
\* buildSuccess = false.
C22_PassedIffCleanAndErrorsReturned ==
    /\ runner.pc # "thrown"
    /\ runner.pc = "returned" =>
         LET result == runner.result
         IN  /\ result.passed <=> (/\ result.buildSuccess
                                   /\ result.patternsMissing = <<>>
                                   /\ result.error = null)
             /\ runner.raised \in {"clone", "checkout", "copy"} =>
                  /\ ~result.passed
                  /\ result.error # null
                  /\ ~result.buildSuccess

\* the skill copy threw, and runEvaluation returned a failed result that
\* carries the exception's message
C22_Witness ==
    /\ runner.pc = "returned"
    /\ runner.raised = "copy"
    /\ runner.result.error = <<"NoSuchFileException">>
    /\ ~runner.result.passed

\* ---- C23
\* the pre-warm build of this run failed
PrewarmFailed == prewarm_build(env) # 0

\* C23: while a run_evaluation process exists, main is past the pre-warm
\* build and the scratch directory is gone; the scratch directory is no
\* evaluation's workspace or archive; and when the pre-warm build failed the
\* run goes on: main exits only after it has collected every selected
\* evaluation, and a graded evaluation's record says PASS exactly when one of
\* its builds succeeded, every required pattern is there and no forbidden
\* one is.
C23_PrewarmIsHarmless ==
    /\ \A i \in Evals :
         /\ task[i].phase # "idle" => (pc \notin {"main", "prewarm"} /\ prewarm_dir \notin dirs)
         /\ prewarm_dir \notin {work_dir(i), workspace_dir(i)}
         /\ (PrewarmFailed /\ Graded(i)) =>
              (Recorded(i)[1] = <<"PASS">>
                 <=> (SomeBuildPassed(i) /\ RequiredFound(i) /\ ~ForbiddenFound(i)))
    /\ (PrewarmFailed /\ pc = "exit") =>
         /\ report.total_run = Len(evals_to_run)
         /\ \A i \in Evals : Selected(i) => Terminated(i)

\* the pre-warm build failed with the template in place, and an evaluation
\* of the run was graded PASS all the same
C23_Witness ==
    /\ env.template = "ok"
    /\ env.prewarm_exit = 1
    /\ \E i \in Evals : Graded(i) /\ Recorded(i)[1] = <<"PASS">>

\* ---- C25
\* neither a usage log of claude nor a session database that sqlite3 can
\* read is in the workspaces of this run
NoTokenSource ==
    \/ BACKEND = "claude" /\ env.agent_exit # 0
    \/ BACKEND = "crush" /\ (env.crush_db # "sessions" \/ ~env.sqlite3)

RECURSIVE SumOfCounters(_, _)
\* the sum of counter n of the tokens files of the evaluations is
SumOfCounters(is, n) ==
    IF is = <<>> THEN 0
    ELSE (IF tokens_file(Head(is)) \in DOMAIN results THEN results[tokens_file(Head(is))][n] ELSE 0)
         + SumOfCounters(Tail(is), n)

\* C25: a run_evaluation process that graded and returned has written the
\* tokens file of its evaluation next to the PASS or FAIL record, and the
\* file holds 0|0|0 when the workspace had no usage log and no readable
\* session database; and the prompt and completion totals of the report are
\* the sums of the prompt and completion counters in the tokens files of the
\* selected evaluations.
C25_TokensDefaultAndTotals ==
    /\ \A i \in Evals : (Returned(i) /\ GradedRecord(i)) =>
         /\ tokens_file(i) \in DOMAIN results
         /\ Recorded(i)[1] \in {<<"PASS">>, <<"FAIL">>}
         /\ NoTokenSource => results[tokens_file(i)] = <<0, 0, 0>>
    /\ Collected =>
         /\ report.total_prompt_tokens = SumOfCounters(evals_to_run, 1)
         /\ report.total_completion_tokens = SumOfCounters(evals_to_run, 2)

\* crush ran without sqlite3: an evaluation passed with the counters 0|0|0,
\* and the report of both selected evaluations totals what the tokens files
\* hold
C25_Witness ==
    /\ BACKEND = "crush"
    /\ ~env.sqlite3
    /\ pc = "exit"
    /\ Len(evals_to_run) = 2
    /\ \E i \in Evals :
         /\ Returned(i)
         /\ Recorded(i)[1] = <<"PASS">>
         /\ results[tokens_file(i)] = <<0, 0, 0>>
    /\ report.total_prompt_tokens = SumOfCounters(evals_to_run, 1)

\* ---- C28
\* signal sig was sent to pid before the k-th signal
SentBefore(sig, pid, k) == \E j \in 1..(k - 1) : watchdog.signals[j] = <<sig, pid>>

\* C28: TERM goes to the run_evaluation process only after it went to every
\* descendant the watchdog saw; KILL goes out only after the grace period,
\* only when the process was still alive at its end, and only to a process
\* that was sent TERM before; and a run_evaluation process that returned
\* while the watchdog slept is sent no signal.
C28_TermChildrenFirstThenKill ==
    LET signals == watchdog.signals
        t == cmd_pid(watchdog.eval)
    IN  /\ \A k \in 1..Len(signals) :
              /\ signals[k] = <<"TERM", t>> =>
                   \A d \in (kill_tree(t) \ {t}) \cap watchdog.seen : SentBefore("TERM", d, k)
              /\ signals[k][1] = "KILL" =>
                   /\ watchdog.graced
                   /\ watchdog.alive_after_grace
                   /\ SentBefore("TERM", signals[k][2], k)
        /\ watchdog.early => signals = <<>>

\* the whole escalation: TERM to the tool, TERM to the run_evaluation
\* process, and after the grace period KILL to both in that order
C28_Witness ==
    /\ watchdog.pc = "end"
    /\ watchdog.signals = << <<"TERM", <<"tool", watchdog.eval>> >>,
                             <<"TERM", <<"task", watchdog.eval>> >>,
                             <<"KILL", <<"tool", watchdog.eval>> >>,
                             <<"KILL", <<"task", watchdog.eval>> >> >>

C32_AgentStartsInFreshWorkspace ==
    \A k \in 1..Len(ts.seen) : ts.seen[k] = -1

\* ---- C36
\* C36: every result of runEvaluation in run-evaluations.ts whose agent call
\* ended has each expected behaviour in exactly one of behaviors_found and
\* behaviors_missing, and has passed = true exactly when more behaviours
\* were found than are missing; a result whose agent call threw has passed =
\* false and an error, a result has an error only then, and main reaches its
\* summary only after every selected evaluation has a result.
C36_BehavioursPartitionedAndMajority ==
    /\ \A k \in 1..Len(ts.results) :
         LET r == ts.results[k]
             behaviors == expected_behavior(ts.toRun[k])
         IN  /\ r.id = TsId(ts.toRun[k])
             /\ (r.error # <<>>) <=> ts.threw[k]
             /\ ts.threw[k] => ~r.passed
             /\ ~ts.threw[k] =>
                  /\ \A j \in 1..Len(behaviors) :
                       (behaviors[j] \in Range(r.behaviors_found))
                          # (behaviors[j] \in Range(r.behaviors_missing))
                  /\ Len(r.behaviors_found) + Len(r.behaviors_missing) = Len(behaviors)
                  /\ r.passed <=> Len(r.behaviors_found) > Len(r.behaviors_missing)
    /\ (ts.pc \in {"summary", "exit"} /\ ts.toRun # <<>>) => Len(ts.results) = Len(ts.toRun)
    /\ ts.exit = 0 => \A k \in 1..Len(ts.results) : ts.results[k].passed

\* the agent of the first evaluation threw, and the second evaluation ran all
\* the same and passed with both of its behaviours found
C36_Witness ==
    /\ ts.pc = "exit"
    /\ Len(ts.results) = 2
    /\ ts.threw[1]
    /\ ts.results[1].error # <<>>
    /\ ~ts.threw[2]
    /\ ts.results[2].passed
    /\ Len(ts.results[2].behaviors_found) = 2

\* ---- C33
\* C33: once a run_evaluation process exists, no result file holds a record of
\* an earlier run; from then on a result file of an evaluation holds a record
\* that its task of this pass wrote, with the evaluation's id; and once main
\* has collected, a selected evaluation whose task wrote no record is
\* reported as a timeout, once, and not as a pass.
C33_NoStaleResultReported ==
    /\ \A i \in Evals : task[i].phase # "idle" =>
         \A p \in DOMAIN results : results[p] # StaleRecord
    /\ \A i \in Evals : (pc \notin {"main", "prewarm"} /\ HasResult(i)) =>
         /\ task[i].wrote
         /\ Recorded(i)[2] = EvalId(i)
    /\ Collected =>
         \A i \in Evals : (Selected(i) /\ ~task[i].wrote) =>
             /\ AsTimeout(report, i)
             /\ Mentions(report, i) = 1

\* an earlier run left files for evaluation 1 (its tokens file is still
\* there); in this run, without --clean, the watchdog ended the task of
\* evaluation 1 before it wrote a record, and the report lists it as a timeout
C33_Witness ==
    /\ Collected
    /\ CLEAN = 0
    /\ Selected(1)
    /\ tokens_file(1) \in DOMAIN results
    /\ results[tokens_file(1)] = StaleTokens
    /\ task[1].phase = "killed"
    /\ ~task[1].wrote
    /\ ~HasResult(1)
    /\ AsTimeout(report, 1)

\* ---- C34
\* the run_evaluation process of i wrote the tokens file of i in this run
WroteTokens(i) == Returned(i) /\ GradedRecord(i)

RECURSIVE SumOfOwnCounters(_, _)
\* the sum of counter n over the evaluations whose task wrote a tokens file
\* in this run
SumOfOwnCounters(is, n) ==
    IF is = <<>> THEN 0
    ELSE (IF WroteTokens(Head(is)) THEN results[tokens_file(Head(is))][n] ELSE 0)
         + SumOfOwnCounters(Tail(is), n)

\* C34: once main has collected, the prompt and completion totals of the
\* report are the sums of the counters that the tasks of this run wrote: an
\* evaluation whose task wrote no tokens file - it timed out, or failed in
\* setup or auth - adds nothing.
C34_TotalsAreOfThisRun ==
    Collected =>
        /\ report.total_prompt_tokens = SumOfOwnCounters(evals_to_run, 1)
        /\ report.total_completion_tokens = SumOfOwnCounters(evals_to_run, 2)

\* ---- C35
\* C35: every call of runEvaluation returns in the end, whatever the
\* commands it starts do: a command that does not end by itself is ended at
\* its timeout and runCommand reports it as failed.
C35_RunEvaluationAlwaysReturns == <>(runner.pc = "returned")

\* ---- C37
\* the manifest entry i does not match the filter of viaduct/run-evaluations.sh
ViaductSkips(i) ==
    /\ viaduct.filter # <<>>
    /\ TsId(i) # viaduct.filter[1]
    /\ ~\E k \in 1..Len(TsName(i)) : TsName(i)[k] = viaduct.filter[1]

\* C37: when viaduct/run-evaluations.sh has exited, main has visited every
\* manifest entry in order, skipped exactly those that do not match the
\* filter and evaluated the others, has printed the summary, and the exit
\* status is 0 if and only if no evaluation failed.
C37_VisitsAllThenExitsZeroIffNoFailure ==
    viaduct.pc = "exit" =>
        /\ Len(viaduct.visited) = NumEvals
        /\ \A k \in 1..Len(viaduct.visited) :
             /\ viaduct.visited[k][1] = k
             /\ (viaduct.visited[k][2] = "skipped") <=> ViaductSkips(k)
        /\ viaduct.summary
        /\ viaduct.exit = 0 <=> \A k \in 1..Len(viaduct.visited) : viaduct.visited[k][2] # "failed"

\* ---- C38
\* how often pat occurs in s
Occurrences(s, pat) ==
    Cardinality({k \in 0..(Len(s) - Len(pat)) : SubSeq(s, k + 1, k + Len(pat)) = pat})

\* s holds exactly one START marker and one END marker, in this order
OneBlock(s) ==
    /\ Occurrences(s, START_MARKER) = 1
    /\ Occurrences(s, END_MARKER) = 1
    /\ indexOf(s, START_MARKER) < indexOf(s, END_MARKER)

\* the text of s outside its marker block, and all of s when it has none,
\* without the newlines
Outside(s) ==
    LET text == IF s = ENOENT THEN <<>>
                ELSE IF OneBlock(s)
                THEN SubSeq(s, 1, indexOf(s, START_MARKER))
                     \o SubSeq(s, indexOf(s, END_MARKER) + Len(END_MARKER) + 1, Len(s))
                ELSE s
    IN  SelectSeq(text, LAMBDA c : c # "\n")

\* C38: after one or more runs of the installer in a directory, the target
\* file - CLAUDE.md if it was there, else AGENTS.md - holds exactly one
\* START/END marker block with the index between the markers; the text
\* outside the block is, newlines aside, what the file held outside such a
\* block before the first run; .gitignore holds the entry of the docs
\* directory exactly once; and a run after the first changes no file.
C38_InstallerIdempotent ==
    installer.runs >= 1 =>
        LET target == targetFile(installer.first)
            content == installer.files[target]
        IN  /\ OneBlock(content)
            /\ Occurrences(content, START_MARKER \o <<"\n">> \o generateIndex \o <<"\n">> \o END_MARKER) = 1
            /\ Outside(content) = Outside(installer.first[target])
            /\ Occurrences(installer.files[".gitignore"], DOCS_DIR \o <<"/">>) = 1
            /\ installer.runs >= 2 => installer.files = installer.last

\* ---- C39
\* the "retry" lines the detailed results show for evaluation i
RetriesShown(i) ==
    SelectSeq(sequential.shown, LAMBDA l : l[1] = ToString(i) /\ l[2] = "retry")

\* C39: when the sequential harness has printed its detailed results, every
\* evaluation that passed after failed builds is listed with one "retry k"
\* line for each of its failed builds, numbered in the order of the builds
\* and with the diagnostic of that build - also when two builds in a row
\* gave the same diagnostic.
C39_OneRetryLinePerFailedBuild ==
    sequential.pc = "exit" =>
        \A i \in Evals :
            (sequential.results_file[i][1] = "PASS" /\ sequential.failed_builds[i] # <<>>) =>
                RetriesShown(i) =
                    [k \in 1..Len(sequential.failed_builds[i]) |->
                        <<ToString(i), "retry", ToString(k), sequential.failed_builds[i][k]>>]

====
